---- MODULE Spec2Model ----
(***************************************************************************)
(* DeepChat in-process MCP tool server (DirectServer) and its registry.     *)
(*                                                                         *)
(* The Chinese message texts of the source are written here in English,    *)
(* the source text is quoted in the comment next to each one.              *)
(***************************************************************************)
EXTENDS Integers, Sequences, FiniteSets, TLC

\* ------------------------------------------------------------------ bounds
\* registerTool calls made by the host: constructor options plus later calls
MaxRegistrations == 2
\* send() calls made on one DirectTransport
MaxSends == 2
\* start() and close() calls made on one DirectTransport
MaxLifecycleCalls == 4
\* paths in one call of a batch image tool
MaxPaths == 3
\* getInMemoryServer calls
MaxBuilds == 2
\* completeStream calls on one CopilotService
MaxStreams == 2
\* completeStream calls of the preload api
MaxRequests == 3
\* stream-chunk events the main process sends for one stream
MaxChunks == 2
\* login calls on the copilot store
MaxLogins == 2
\* logout calls on the copilot store
MaxLogouts == 1
\* firings of one login's polling timer
MaxTicks == 4

\* ------------------------------------------------------- JavaScript values
Undefined == [t |-> "undefined"]
Num(n) == [t |-> "number", n |-> n]
Str(s) == [t |-> "string", s |-> s]
Arr(items) == [t |-> "array", items |-> items]

\* an object literal with no own property
EmptyObject == [k \in {} |-> Undefined]

\* obj.key: the property, or undefined when the object has none of that name
Get(obj, key) == IF key \in DOMAIN obj THEN obj[key] ELSE Undefined

\* Array.isArray(v)
IsArray(v) == v.t = "array"

NaN == [nan |-> TRUE]
Finite(n) == [nan |-> FALSE, n |-> n]

\* Number(s) of a string: a decimal literal is its value, "" is 0, other text NaN
NumberOfString(s) ==
    CASE s = "" -> Finite(0)
      [] s = "3" -> Finite(3)
      [] OTHER -> NaN

\* Number(v)
ToNumber(v) ==
    CASE v.t = "number" -> Finite(v.n)
      [] v.t = "string" -> NumberOfString(v.s)
      [] OTHER -> NaN

\* `${v}` in a template string
Template(v) ==
    CASE v.t = "number" -> ToString(v.n)
      [] v.t = "string" -> v.s
      [] OTHER -> "undefined"

\* ------------------------------------------------------- handler outcomes
Returned(v) == [threw |-> FALSE, value |-> v]
Thrown(e) == [threw |-> TRUE, error |-> e]
\* new Error(message)
ErrorOf(message) == [isError |-> TRUE, message |-> message]
\* a thrown value that is not an Error (here a number)
NonError(n) == [isError |-> FALSE, num |-> n]

\* error instanceof Error ? error.message : String(error)
ErrorMessage(e) == IF e.isError THEN e.message ELSE ToString(e.num)

\* a reducer that returns curr where the code returns acc + num
RECURSIVE SumReduceDropsAcc(_, _, _)
SumReduceDropsAcc(items, i, acc) ==
    IF i > Len(items) THEN Returned([t |-> "object", sum |-> acc])
    ELSE LET num == ToNumber(items[i])
         IN IF num.nan
            THEN Thrown(ErrorOf("array contains a non-numeric value: "
                                \o Template(items[i])))
            ELSE SumReduceDropsAcc(items, i + 1, num.n)

\* numbers.reduce((acc, curr) => ..., 0) of the sum tool, from index i on
RECURSIVE SumReduce(_, _, _)
SumReduce(items, i, acc) ==
    IF i > Len(items) THEN Returned([t |-> "object", sum |-> acc])
    ELSE LET num == ToNumber(items[i])
         IN IF num.nan
            \* source text: 数组中包含非数字值: ${curr}
            THEN Thrown(ErrorOf("array contains a non-numeric value: "
                                \o Template(items[i])))
            ELSE SumReduce(items, i + 1, acc + num.n)

\* the handler of the built-in tool sum
SumHandler(args) ==
    LET numbers == Get(args, "numbers")
    IN IF ~IsArray(numbers)
       \* source text: 参数必须是一个数字数组
       THEN Thrown(ErrorOf("the argument must be a numeric array"))
       ELSE SumReduce(numbers.items, 1, 0)

\* the global presenter object the listPresenters tool inspects: its keys,
\* typeof presenter[key] === 'object', constructor name, prototype size
presenter ==
    << [key |-> "configPresenter", isObject |-> TRUE,
        type |-> "ConfigPresenter", methodCount |-> 3],
       [key |-> "_private", isObject |-> TRUE,
        type |-> "Object", methodCount |-> 1],
       [key |-> "init", isObject |-> FALSE,
        type |-> "function", methodCount |-> 0] >>

\* key.startsWith('_')
StartsWithUnderscore(key) == key \in {"_private"}

\* the filter and map of the listPresenters tool, from index i on
RECURSIVE PresentersFrom(_)
PresentersFrom(i) ==
    IF i > Len(presenter) THEN <<>>
    ELSE LET p == presenter[i]
         IN IF ~StartsWithUnderscore(p.key) /\ p.isObject
            THEN << [name |-> p.key, type |-> p.type,
                     methodCount |-> p.methodCount] >> \o PresentersFrom(i + 1)
            ELSE PresentersFrom(i + 1)

\* the handler of the built-in tool listPresenters
ListPresentersHandler(args) ==
    Returned([t |-> "object", presenters |-> PresentersFrom(1)])

\* JSON.stringify of a string
JsonString(s) == "\"" \o s \o "\""

\* JSON.stringify of the presenter entries from index i on, comma separated
RECURSIVE JsonPresenters(_, _)
JsonPresenters(ps, i) ==
    IF i > Len(ps) THEN ""
    ELSE (IF i > 1 THEN "," ELSE "")
         \o "{\"name\":" \o JsonString(ps[i].name)
         \o ",\"type\":" \o JsonString(ps[i].type)
         \o ",\"methodCount\":" \o ToString(ps[i].methodCount) \o "}"
         \o JsonPresenters(ps, i + 1)

\* JSON.stringify(result) of a handler result that is not an array
JSONStringify(v) ==
    IF "sum" \in DOMAIN v
    THEN "{\"sum\":" \o ToString(v.sum) \o "}"
    ELSE "{\"presenters\":[" \o JsonPresenters(v.presenters, 1) \o "]}"

\* ------------------------------------------------- handlers and schemas
\* handlers a host registers: one returns a content array, one throws an
\* Error, one rejects with a value that is not an Error
Invoke(h, args) ==
    CASE h = "sum" -> SumHandler(args)
      [] h = "listPresenters" -> ListPresentersHandler(args)
      [] h = "hostArray" ->
            Returned(Arr(<< [type |-> "text", text |-> "hello"] >>))
      [] h = "hostThrows" -> Thrown(ErrorOf("boom"))
      [] OTHER -> Thrown(NonError(42))

\* the input schema of sum
SumSchema ==
    [type |-> "object",
     properties |-> [numbers |-> [type |-> "array", items |-> "number"]],
     required |-> <<"numbers">>]

\* the input schema of listPresenters, and the default of list_tools
EmptySchema == [type |-> "object", properties |-> EmptyObject, required |-> <<>>]

\* a host tool's schema with one required string field
PathSchema ==
    [type |-> "object",
     properties |-> [path |-> [type |-> "string"]],
     required |-> <<"path">>]

Tool(name, description, handler, inputSchema) ==
    [name |-> name, description |-> description,
     handler |-> handler, inputSchema |-> inputSchema]

\* the tools a host passes to the constructor or to registerTool
HostTools ==
    { Tool("t1", "first", "hostArray", EmptySchema),
      Tool("t1", "", "hostThrows", PathSchema),
      Tool("sum", "host sum", "hostRejects", EmptySchema) }

\* ------------------------------------------------------------ the server
VARIABLES
    options,        \* options.tools the constructor was given
    registered,     \* the tools given to registerTool after construction
    toolHandlers,   \* _toolHandlers: a Map, as its entries in insertion order
    tools,          \* _tools
    last,           \* the request served last, with its outcome
    handlerFailed,  \* a tool handler has thrown in some request served so far
    listed          \* the first list_tools result since the last registerTool

serverVars == << options, registered, toolHandlers, tools, last,
                 handlerFailed, listed >>

\* one DirectTransport and what its callers and callbacks saw
VARIABLES
    handleMessage,    \* _options.handleMessage: the server's, one that rejects,
                      \* or one that rejects call_tool and answers the rest
    onmessageThrows,  \* the owner's onmessage callback throws
    isConnected,      \* _isConnected
    listeners,        \* 'response' listeners on _emitter
    closing,          \* close() calls awaiting _options.onClose()
    onCloseRuns,      \* times _options.onClose was called
    oncloseRuns,      \* times the onclose callback was called
    everStarted,      \* start() has connected the transport at some time
    closedOnce,       \* close() has disconnected the transport at some time
    lifecycleCalls,   \* start() and close() calls so far
    lastCall,         \* the latest start() or close() call and how it ended
    sends,            \* the send() calls, in call order
    started,          \* the sends whose handleMessage was called, in call order
    delivered         \* the onmessage invocations, in order

transportVars == << handleMessage, onmessageThrows, isConnected, listeners,
                    closing, onCloseRuns, oncloseRuns, everStarted, closedOnce,
                    lifecycleCalls, lastCall, sends, started, delivered >>

\* one ImageServer and one tools/call request to it
VARIABLES
    r2Client,        \* this.r2Client is not null
    publicUrlBase,   \* this.publicUrlBase, "" when it is undefined or empty
    imageRequest,    \* request.params of the call being handled
    imageTasks,      \* the async functions of paths.map, one for each path
    imageResult      \* what the call tool handler returned

imageVars == << r2Client, publicUrlBase, imageRequest, imageTasks, imageResult >>

\* the callers of getInMemoryServer
VARIABLES
    factoryCalls,    \* the getInMemoryServer calls with what each ended with
    instances        \* servers constructed so far

factoryVars == << factoryCalls, instances >>

\* one CopilotService
VARIABLES
    currentAbortController,  \* 0 for null, else the completeStream call that
                             \* made the controller
    streams,                 \* the completeStream calls, in call order
    attempts,                \* attempts of the getCopilotToken call
    currentDelay,            \* currentDelay of the getCopilotToken call
    polling,                 \* where the getCopilotToken call stands
    polled                   \* what its token requests ended with, in order

streamVars == << currentAbortController, streams >>
pollVars == << attempts, currentDelay, polling, polled >>

\* the renderer's side of the copilot channels: the listeners the preload
\* api has on ipcRenderer, and what each completeStream call has seen
VARIABLES
    ipcListeners,    \* for each channel, the completeStream calls whose
                     \* handler listens on it
    preloadStreams   \* the completeStream calls, in call order

preloadVars == << ipcListeners, preloadStreams >>

\* the copilot store of the renderer
VARIABLES
    isAuthenticated,
    user,
    deviceCodeInfo,
    copilotToken,
    githubAccessToken,
    isLoading,
    errorValue,         \* error.value
    pollingIntervalId,  \* 0 for null, else the login call that set the timer
    timers,             \* the setInterval timers not cleared, by login call
    logins,             \* the login calls, in call order
    logouts,            \* the logout calls, in call order
    cleared             \* logout or cancelLoginPolling has completed with
                        \* the login state clear, and no login was called since

storeVars == << isAuthenticated, user, deviceCodeInfo, copilotToken,
                githubAccessToken, isLoading, errorValue, pollingIntervalId,
                timers, logins, logouts, cleared >>
rendererVars == << preloadVars, storeVars >>

vars == << serverVars, transportVars, imageVars, factoryVars, streamVars,
           pollVars, rendererVars >>

\* what the operations of each component leave alone
outsideServer ==
    << transportVars, imageVars, factoryVars, streamVars, pollVars,
       rendererVars >>
outsideTransport ==
    << serverVars, imageVars, factoryVars, streamVars, pollVars,
       rendererVars >>
outsideImage ==
    << serverVars, transportVars, factoryVars, streamVars, pollVars,
       rendererVars >>
outsideFactory ==
    << serverVars, transportVars, imageVars, streamVars, pollVars,
       rendererVars >>
outsideStreams ==
    << serverVars, transportVars, imageVars, factoryVars, pollVars,
       rendererVars >>
mainVars == << serverVars, transportVars, imageVars, factoryVars, streamVars,
              pollVars >>
outsidePreload == << mainVars, storeVars >>
outsideStore == << mainVars, preloadVars >>
outsidePolling ==
    << serverVars, transportVars, imageVars, factoryVars, streamVars,
       rendererVars >>

\* JSON-RPC error codes the server answers with
InvalidRequest == -32600
MethodNotFound == -32601
ToolExecutionFailed == -32000

\* a Map whose set moves a known key to the end
MapSetMovesLast(m, key, value) ==
    SelectSeq(m, LAMBDA e : e.name # key)
    \o << [name |-> key, handler |-> value] >>

\* Map.prototype.set: a new key goes last, a known key keeps its place
RECURSIVE MapSet(_, _, _)
MapSet(m, key, value) ==
    IF m = <<>> THEN << [name |-> key, handler |-> value] >>
    ELSE IF Head(m).name = key
         THEN << [name |-> key, handler |-> value] >> \o Tail(m)
         ELSE << Head(m) >> \o MapSet(Tail(m), key, value)

\* Map.prototype.get: the value, or undefined
RECURSIVE MapGet(_, _)
MapGet(m, key) ==
    IF m = <<>> THEN Undefined
    ELSE IF Head(m).name = key
         THEN [t |-> "function", handler |-> Head(m).handler]
         ELSE MapGet(Tail(m), key)

\* Array.from(map.keys())
MapKeys(m) == [i \in 1..Len(m) |-> m[i].name]

\* Array.prototype.find((t) => t.name === name): the first match, or undefined
RECURSIVE Find(_, _)
Find(ts, name) ==
    IF ts = <<>> THEN Undefined
    ELSE IF Head(ts).name = name
         THEN [t |-> "object", tool |-> Head(ts)]
         ELSE Find(Tail(ts), name)

\* registerTool on a registry [handlers, tools]
RegisterTool(reg, tool) ==
    [handlers |-> MapSet(reg.handlers, tool.name, tool.handler),
     tools |-> Append(reg.tools,
                      [name |-> tool.name, description |-> tool.description,
                       inputSchema |-> tool.inputSchema])]

\* options.tools.forEach(registerTool), from index i on
RECURSIVE RegisterAll(_, _, _)
RegisterAll(reg, ts, i) ==
    IF i > Len(ts) THEN reg
    ELSE RegisterAll(RegisterTool(reg, ts[i]), ts, i + 1)

\* the two tools of registerBuiltinTools, in the order it registers them
\* source texts: 计算一组数字的总和 / 获取当前项目中所有可用的Presenter
BuiltinTools ==
    << Tool("sum", "compute the total of a list of values", "sum", SumSchema),
       Tool("listPresenters", "list every Presenter of the project",
            "listPresenters", EmptySchema) >>

\* registerBuiltinTools
RegisterBuiltinTools(reg) ==
    RegisterTool(RegisterTool(reg, BuiltinTools[1]), BuiltinTools[2])

\* the registry the constructor leaves
Constructor(optionTools) ==
    RegisterBuiltinTools(
        IF Len(optionTools) > 0
        THEN RegisterAll([handlers |-> <<>>, tools |-> <<>>], optionTools, 1)
        ELSE [handlers |-> <<>>, tools |-> <<>>])

\* a handler map that also answers the method tools/list
MessageHandlersAndToolsList == {"call_tool", "list_tools", "tools/list"}

\* the keys of _messageHandlers, set by the constructor
MessageHandlers == {"call_tool", "list_tools"}

\* the fallback id, whatever the message carries
IdOrFallback(message, fallback) == fallback

\* 'id' in message ? message.id : fallback
IdOr(message, fallback) ==
    IF "id" \in DOMAIN message THEN message.id ELSE fallback

ErrorResponse(id, code, text) ==
    [jsonrpc |-> "2.0", id |-> id, error |-> [code |-> code, message |-> text]]

\* what a message handler did: it returned resp, or an exception left it;
\* calls lists the tool handlers it invoked, with the arguments given
Answer(resp, calls) == [threw |-> FALSE, resp |-> resp, calls |-> calls]

\* an exception leaves the block, after the calls made
Raised(e, calls) == [threw |-> TRUE, error |-> e, calls |-> calls]

\* the try block of the call_tool handler
CallToolTry(message) ==
    LET params == message.params
        name == params.name
        args == IF "arguments" \in DOMAIN params THEN params.arguments
                ELSE EmptyObject
        handler == MapGet(toolHandlers, name)
    IN IF handler.t = "undefined"
       \* source text: 工具不存在: ${name}
       THEN Raised(ErrorOf("tool does not exist: " \o name), <<>>)
       ELSE LET out == Invoke(handler.handler, args)
                call == << [name |-> name, handler |-> handler.handler,
                            args |-> args] >>
            IN IF out.threw
               THEN Raised(out.error, call)
               ELSE Answer(
                        [jsonrpc |-> "2.0",
                         id |-> IdOr(message, "call_tool"),
                         result |->
                            [content |->
                                IF IsArray(out.value) THEN out.value.items
                                ELSE << [type |-> "text",
                                         text |-> JSONStringify(out.value)] >>]],
                        call)

\* no catch block: what the try block threw leaves the handler
CallToolCatchRethrows(message, attempt) == attempt

\* the catch block of the call_tool handler, given how the try block ended
CallToolCatch(message, attempt) ==
    IF attempt.threw
    THEN Answer(ErrorResponse(IdOr(message, "error"), ToolExecutionFailed,
                              ErrorMessage(attempt.error)), attempt.calls)
    ELSE attempt

\* the call_tool message handler
CallToolHandler(message) ==
    IF ~("method" \in DOMAIN message) \/ ~("params" \in DOMAIN message)
    \* source text: 无效的请求
    THEN Answer(ErrorResponse(IdOr(message, "null"), InvalidRequest,
                              "invalid request"), <<>>)
    ELSE CallToolCatch(message, CallToolTry(message))

\* tool?.description || `工具 ${name}`
DescriptionOf(found, name) ==
    IF found.t = "undefined" \/ found.tool.description = ""
    THEN "tool " \o name
    ELSE found.tool.description

\* tool?.inputSchema || { type: 'object', properties: {}, required: [] }
InputSchemaOf(found) ==
    IF found.t = "undefined" THEN EmptySchema ELSE found.tool.inputSchema

\* a tools array that shows the built-in tools only
ListedToolsBuiltinOnly ==
    [i \in 1..Len(BuiltinTools) |->
        [name |-> BuiltinTools[i].name,
         description |-> BuiltinTools[i].description,
         inputSchema |-> BuiltinTools[i].inputSchema]]

\* the tools array of the list_tools result
ListedTools ==
    LET names == MapKeys(toolHandlers)
    IN [i \in 1..Len(names) |->
            LET tool == Find(tools, names[i])
            IN [name |-> names[i],
                description |-> DescriptionOf(tool, names[i]),
                inputSchema |-> InputSchemaOf(tool)]]

\* the list_tools message handler
ListToolsHandler(message) ==
    IF ~("method" \in DOMAIN message)
    THEN Answer(ErrorResponse(IdOr(message, "null"), InvalidRequest,
                              "invalid request"), <<>>)
    ELSE Answer([jsonrpc |-> "2.0", id |-> IdOr(message, "list_tools"),
                 result |-> [tools |-> ListedTools]], <<>>)

\* handleRequest
HandleRequest(message) ==
    IF ~("method" \in DOMAIN message)
    \* source text: 无效的请求：缺少method
    THEN Answer(ErrorResponse(IdOr(message, "error"), InvalidRequest,
                              "invalid request: method is missing"), <<>>)
    ELSE IF message.method \in MessageHandlers
         THEN IF message.method = "call_tool" THEN CallToolHandler(message)
              ELSE ListToolsHandler(message)
         \* source text: 方法不存在: ${method}
         ELSE Answer(ErrorResponse(IdOr(message, "error"), MethodNotFound,
                                   "method does not exist: " \o message.method),
                     <<>>)

\* ------------------------------------------------------------- requests
\* request ids
Ids == {"id-1", "id-2"}

\* the numbers arrays sent to sum
NumbersArrays ==
    { <<>>, << Num(1), Num(2) >>, << Num(1), Str("a") >>, << Str("3"), Num(2) >>,
      << Num(1), Num(2), Num(3), Num(4), Num(5) >>, << Num(-7), Num(4) >>,
      << Str("a") >> }

\* the sequences over S of length at most n
SeqsUpTo(S, n) == UNION {[1..k -> S] : k \in 0..n}

\* the arguments objects sent to sum
SumArguments ==
    {EmptyObject, [numbers |-> Str("x")]}
    \cup {[numbers |-> Arr(a)] : a \in NumbersArrays}

\* the params of the call_tool requests
CallParams ==
    {[name |-> "sum"]}
    \cup {[name |-> "sum", arguments |-> a] : a \in SumArguments}
    \cup {[name |-> "listPresenters", arguments |-> EmptyObject]}
    \cup {[name |-> n, arguments |-> a] :
            n \in {"t1", "nope"},
            a \in {EmptyObject, [path |-> Str("p")]}}

\* message bodies: two without a method, list_tools, an unknown method,
\* call_tool without params and with them
Bodies ==
    {[jsonrpc |-> "2.0"],
     [jsonrpc |-> "2.0", result |-> EmptyObject],
     [jsonrpc |-> "2.0", method |-> "list_tools"],
     [jsonrpc |-> "2.0", method |-> "tools/list"],
     [jsonrpc |-> "2.0", method |-> "call_tool"]}
    \cup {[jsonrpc |-> "2.0", method |-> "call_tool", params |-> p] :
            p \in CallParams}

\* every body without an id, and with each id
Messages == Bodies \cup {("id" :> i) @@ b : i \in Ids, b \in Bodies}

NotServed == [served |-> FALSE]
NoList == [some |-> FALSE]

\* a tool handler was invoked and threw
HandlerThrew(out) ==
    /\ out.calls # <<>>
    /\ out.threw \/ "error" \in DOMAIN out.resp

\* out answers list_tools with a result
IsListResult(out) ==
    /\ ~out.threw
    /\ "result" \in DOMAIN out.resp
    /\ "tools" \in DOMAIN out.resp.result

\* what a caller of handleRequest sees of one request
Observe(message, out) ==
    /\ last' = [served |-> TRUE, message |-> message, out |-> out]
    /\ handlerFailed' = (handlerFailed \/ HandlerThrew(out))
    /\ listed' = IF IsListResult(out) /\ ~listed.some
                  THEN [some |-> TRUE, tools |-> out.resp.result.tools,
                        failedBefore |-> handlerFailed]
                  ELSE listed
    /\ UNCHANGED outsideServer

\* delays of getCopilotToken, in ms
INITIAL_POLLING_DELAY_MS == 5000
POLLING_INTERVAL_MS == 5000
MAX_POLLING_ATTEMPTS == 10

\* no getInMemoryServer call made
FactoryUnused ==
    /\ factoryCalls = <<>>
    /\ instances = 0

\* a CopilotService as its constructor leaves it
CopilotConstructed ==
    /\ currentAbortController = 0
    /\ streams = <<>>

NotPolling == [pc |-> "idle"]

\* a CopilotService nobody uses
CopilotUnused ==
    /\ CopilotConstructed
    /\ attempts = 0
    /\ currentDelay = INITIAL_POLLING_DELAY_MS
    /\ polling = NotPolling
    /\ polled = <<>>

\* the channels of ipcRenderer the preload api listens on
Channels ==
    { "copilot:stream-chunk", "copilot:stream-error", "copilot:stream-end" }

\* a renderer that has called nothing of the preload api
PreloadUnused ==
    /\ ipcListeners = [c \in Channels |-> {}]
    /\ preloadStreams = <<>>

\* null
Null == [t |-> "null"]

\* the copilot store as defineStore's setup function leaves it
StoreUnused ==
    /\ isAuthenticated = FALSE
    /\ user = Null
    /\ deviceCodeInfo = Null
    /\ copilotToken = Null
    /\ githubAccessToken = Null
    /\ isLoading = FALSE
    /\ errorValue = Null
    /\ pollingIntervalId = 0
    /\ timers = {}
    /\ logins = <<>>
    /\ logouts = <<>>
    /\ cleared = FALSE

RendererUnused == PreloadUnused /\ StoreUnused

\* the components a specification leaves unused
OthersUnused == FactoryUnused /\ CopilotUnused /\ RendererUnused

NoRequest == [name |-> "none"]
NoResult == [pending |-> TRUE]

\* an ImageServer with R2 configured that was never called
ImageUnused ==
    /\ r2Client = TRUE
    /\ publicUrlBase = "https://cdn.example"
    /\ imageRequest = NoRequest
    /\ imageTasks = <<>>
    /\ imageResult = NoResult

NoCall == [op |-> "none"]

\* a DirectTransport as its constructor leaves it
TransportConstructed ==
    /\ isConnected = FALSE
    /\ listeners = 0
    /\ closing = 0
    /\ onCloseRuns = 0
    /\ oncloseRuns = 0
    /\ everStarted = FALSE
    /\ closedOnce = FALSE
    /\ lifecycleCalls = 0
    /\ lastCall = NoCall
    /\ sends = <<>>
    /\ started = <<>>
    /\ delivered = <<>>

\* the transport of createDirectTransport, never used
TransportUnused ==
    /\ handleMessage = "handleRequest"
    /\ onmessageThrows = FALSE
    /\ TransportConstructed

Init ==
    /\ TransportUnused
    /\ ImageUnused
    /\ OthersUnused
    /\ options \in SeqsUpTo(HostTools, MaxRegistrations)
    /\ registered = <<>>
    /\ toolHandlers = Constructor(options).handlers
    /\ tools = Constructor(options).tools
    /\ last = NotServed
    /\ handlerFailed = FALSE
    /\ listed = NoList

\* the host calls registerTool on the constructed server
RegisterToolCall(tool) ==
    /\ Len(options) + Len(registered) < MaxRegistrations
    /\ LET reg == RegisterTool([handlers |-> toolHandlers, tools |-> tools], tool)
       IN /\ toolHandlers' = reg.handlers
          /\ tools' = reg.tools
    /\ registered' = Append(registered, tool)
    /\ last' = NotServed
    /\ listed' = NoList
    /\ UNCHANGED << options, handlerFailed >>
    /\ UNCHANGED outsideServer

\* a call_tool handler that unregisters a tool whose handler threw
HandleRequestCallEvicts(message) ==
    LET out == HandleRequest(message)
    IN /\ Observe(message, out)
       /\ toolHandlers' =
            IF HandlerThrew(out)
            THEN SelectSeq(toolHandlers, LAMBDA e : e.name # out.calls[1].name)
            ELSE toolHandlers
       /\ UNCHANGED << options, registered, tools >>

\* a call_tool handler that records a descriptor for each tool it ran
HandleRequestCallRecords(message) ==
    LET out == HandleRequest(message)
    IN /\ Observe(message, out)
       /\ tools' =
            IF out.calls # <<>>
            THEN Append(tools, [name |-> out.calls[1].name,
                                description |-> "", inputSchema |-> EmptySchema])
            ELSE tools
       /\ UNCHANGED << options, registered, toolHandlers >>

\* a caller awaits handleRequest(message)
HandleRequestCall(message) ==
    /\ Observe(message, HandleRequest(message))
    /\ UNCHANGED << options, registered, toolHandlers, tools >>

Next ==
    \/ \E tool \in HostTools : RegisterToolCall(tool)
    \/ \E message \in Messages : HandleRequestCall(message)

Spec == Init /\ [][Next]_vars

\* ---------------------------------------------------- the DirectTransport
\* the server behind the transport, as its constructor leaves it with no
\* tools in the options
ServerConstructed ==
    /\ options = <<>>
    /\ registered = <<>>
    /\ toolHandlers = Constructor(<<>>).handlers
    /\ tools = Constructor(<<>>).tools
    /\ last = NotServed
    /\ handlerFailed = FALSE
    /\ listed = NoList

\* the messages given to send: two requests with ids, a list_tools
\* notification, and a message with neither method nor id
TransportMessages ==
    { [jsonrpc |-> "2.0", id |-> "id-1", method |-> "list_tools"],
      [jsonrpc |-> "2.0", id |-> "id-2", method |-> "call_tool",
       params |-> [name |-> "sum",
                   arguments |-> [numbers |-> Arr(<< Num(1), Num(2) >>)]]],
      [jsonrpc |-> "2.0", method |-> "list_tools"],
      [jsonrpc |-> "2.0"] }

TransportInit ==
    /\ ServerConstructed
    /\ ImageUnused
    /\ OthersUnused
    /\ handleMessage \in {"handleRequest", "rejects", "rejectsCalls"}
    /\ onmessageThrows \in BOOLEAN
    /\ TransportConstructed

Call(op, wasConnected, outcome) ==
    [op |-> op, wasConnected |-> wasConnected, outcome |-> outcome]

\* a start() without the guard: it connects again and listens again
TransportStartUnguarded ==
    /\ lifecycleCalls < MaxLifecycleCalls
    /\ lifecycleCalls' = lifecycleCalls + 1
    /\ isConnected' = TRUE
    /\ listeners' = listeners + 1
    /\ everStarted' = TRUE
    /\ lastCall' = Call("start", isConnected, "resolved")
    /\ UNCHANGED << handleMessage, onmessageThrows, closing, onCloseRuns,
                    oncloseRuns, closedOnce, sends, started, delivered >>
    /\ UNCHANGED outsideTransport

\* start()
TransportStart ==
    /\ lifecycleCalls < MaxLifecycleCalls
    /\ lifecycleCalls' = lifecycleCalls + 1
    /\ IF isConnected
       \* source text: DirectTransport已经启动！
       THEN /\ lastCall' = Call("start", TRUE, "rejected")
            /\ UNCHANGED << isConnected, listeners, everStarted >>
       ELSE /\ isConnected' = TRUE
            /\ listeners' = listeners + 1
            /\ everStarted' = TRUE
            /\ lastCall' = Call("start", FALSE, "resolved")
    /\ UNCHANGED << handleMessage, onmessageThrows, closing, onCloseRuns,
                    oncloseRuns, closedOnce, sends, started, delivered >>
    /\ UNCHANGED outsideTransport

\* close(), up to its await of _options.onClose()
TransportClose ==
    /\ lifecycleCalls < MaxLifecycleCalls
    /\ lifecycleCalls' = lifecycleCalls + 1
    /\ IF ~isConnected
       THEN /\ lastCall' = Call("close", FALSE, "resolved")
            /\ UNCHANGED << isConnected, listeners, closing, onCloseRuns,
                            closedOnce >>
       ELSE /\ isConnected' = FALSE
            /\ listeners' = 0
            /\ onCloseRuns' = onCloseRuns + 1
            /\ closing' = closing + 1
            /\ closedOnce' = TRUE
            /\ lastCall' = Call("close", TRUE, "resolved")
    /\ UNCHANGED << handleMessage, onmessageThrows, oncloseRuns, everStarted,
                    sends, started, delivered >>
    /\ UNCHANGED outsideTransport

\* close() after its await: this.onclose?.()
TransportCloseResumes ==
    /\ closing > 0
    /\ closing' = closing - 1
    /\ oncloseRuns' = oncloseRuns + 1
    /\ UNCHANGED << handleMessage, onmessageThrows, isConnected, listeners,
                    onCloseRuns, everStarted, closedOnce, lifecycleCalls,
                    lastCall, sends, started, delivered >>
    /\ UNCHANGED outsideTransport

\* one send() call: its message, _isConnected when it was called, how its
\* promise stands, the callbacks invoked for it, how handleMessage settled,
\* and the sends still pending when it rejected
SendRecord(message, status) ==
    [message |-> message, wasConnected |-> isConnected, status |-> status,
     onmessage |-> 0, onerror |-> 0,
     handler |-> "none", pendingThen |-> {}]

\* the other sends that await handleMessage
PendingBeside(n) ==
    { k \in 1..Len(sends) : k # n /\ sends[k].status = "pending" }

\* whether _options.handleMessage(message) rejects
HandlerRejects(message) ==
    CASE handleMessage = "handleRequest" -> FALSE
      [] handleMessage = "rejects" -> TRUE
      [] OTHER -> "method" \in DOMAIN message /\ message.method = "call_tool"

\* a send() that does not look at _isConnected
TransportSendUnchecked(message) ==
    /\ Len(sends) < MaxSends
    /\ sends' = Append(sends, SendRecord(message, "pending"))
    /\ started' = Append(started, Len(sends) + 1)
    /\ UNCHANGED << handleMessage, onmessageThrows, isConnected, listeners,
                    closing, onCloseRuns, oncloseRuns, everStarted, closedOnce,
                    lifecycleCalls, lastCall, delivered >>
    /\ UNCHANGED outsideTransport

\* send(message), up to its await of _options.handleMessage(message)
TransportSend(message) ==
    /\ Len(sends) < MaxSends
    /\ IF ~isConnected
       \* source text: 未连接
       THEN /\ sends' = Append(sends, SendRecord(message, "rejected"))
            /\ UNCHANGED started
       ELSE /\ sends' = Append(sends, SendRecord(message, "pending"))
            /\ started' = Append(started, Len(sends) + 1)
    /\ UNCHANGED << handleMessage, onmessageThrows, isConnected, listeners,
                    closing, onCloseRuns, oncloseRuns, everStarted, closedOnce,
                    lifecycleCalls, lastCall, delivered >>
    /\ UNCHANGED outsideTransport

\* one message slot shared by the sends: the oldest pending send's message
AwaitedMessageShared(n) ==
    sends[CHOOSE k \in 1..Len(sends) :
            /\ sends[k].status = "pending"
            /\ \A j \in 1..(k - 1) : sends[j].status # "pending"].message

\* the message the n-th send awaits the response to
AwaitedMessage(n) == sends[n].message

\* the listeners emit('response') calls: all, or up to the first that throws
EmitCalls ==
    IF listeners = 0 THEN 0
    ELSE IF onmessageThrows THEN 1 ELSE listeners

\* emit('response') throws what a listener threw
EmitThrows == listeners > 0 /\ onmessageThrows

\* a send() whose catch block also tears the connection down
TransportSettleDisconnects(n) ==
    /\ n \in 1..Len(sends)
    /\ sends[n].status = "pending"
    /\  IF HandlerRejects(AwaitedMessage(n))
        THEN /\ sends' = [sends EXCEPT ![n].status = "resolved",
                                       ![n].onerror = @ + 1,
                                       ![n].handler = "rejected",
                                       ![n].pendingThen = PendingBeside(n)]
             /\ isConnected' = FALSE
             /\ listeners' = 0
             /\ UNCHANGED delivered
        ELSE LET response == HandleRequest(AwaitedMessage(n)).resp
             IN /\ delivered' =
                     delivered \o
                     [i \in 1..EmitCalls |->
                         [send |-> n, resp |-> response,
                          afterClose |-> closedOnce]]
                /\ sends' = [sends EXCEPT
                                 ![n].status = "resolved",
                                 ![n].onmessage = @ + EmitCalls,
                                 ![n].onerror = @ + IF EmitThrows THEN 1 ELSE 0,
                                 ![n].handler = "answered"]
                /\ UNCHANGED << isConnected, listeners >>
    /\ UNCHANGED << handleMessage, onmessageThrows,
                    closing, onCloseRuns, oncloseRuns, everStarted, closedOnce,
                    lifecycleCalls, lastCall, started >>
    /\ UNCHANGED outsideTransport

\* send() after its await: handleMessage settled, the response is emitted
\* or the catch block reports to onerror
TransportSettle(n) ==
    /\ n \in 1..Len(sends)
    /\ sends[n].status = "pending"
    /\  IF HandlerRejects(AwaitedMessage(n))
        THEN /\ sends' = [sends EXCEPT ![n].status = "resolved",
                                       ![n].onerror = @ + 1,
                                       ![n].handler = "rejected",
                                       ![n].pendingThen = PendingBeside(n)]
             /\ UNCHANGED delivered
        ELSE LET response == HandleRequest(AwaitedMessage(n)).resp
             IN /\ delivered' =
                     delivered \o
                     [i \in 1..EmitCalls |->
                         [send |-> n, resp |-> response,
                          afterClose |-> closedOnce]]
                /\ sends' = [sends EXCEPT
                                 ![n].status = "resolved",
                                 ![n].onmessage = @ + EmitCalls,
                                 ![n].onerror = @ + IF EmitThrows THEN 1 ELSE 0,
                                 ![n].handler = "answered"]
    /\ UNCHANGED << handleMessage, onmessageThrows, isConnected, listeners,
                    closing, onCloseRuns, oncloseRuns, everStarted, closedOnce,
                    lifecycleCalls, lastCall, started >>
    /\ UNCHANGED outsideTransport

TransportNext ==
    \/ TransportStart
    \/ TransportClose
    \/ TransportCloseResumes
    \/ \E message \in TransportMessages : TransportSend(message)
    \/ \E n \in 1..MaxSends : TransportSettle(n)

SpecTransport == TransportInit /\ [][TransportNext]_vars

\* -------------------------------------------------------- the ImageServer
\* the files of the host: fs.readFile(path) gives the content or rejects
ImagePaths == { "a.png", "dir/b.png", "missing.png" }

ReadFile(path) ==
    CASE path = "a.png" -> Returned("hi")
      [] path = "dir/b.png" -> Returned("")
      [] OTHER -> Thrown(ErrorOf("ENOENT: no such file or directory, open '"
                                 \o path \o "'"))

\* fileBuffer.toString('base64') of the contents above
Base64Of(content) ==
    CASE content = "" -> ""
      [] content = "hi" -> "aGk="
      [] OTHER -> "Pw=="

\* index of the last "/" of s at or before i, 0 when there is none
RECURSIVE LastSlash(_, _)
LastSlash(s, i) ==
    IF i = 0 THEN 0
    ELSE IF SubSeq(s, i, i) = "/" THEN i ELSE LastSlash(s, i - 1)

\* path.basename(filePath) of a path that does not end with a slash
Basename(s) == SubSeq(s, LastSlash(s, Len(s)) + 1, Len(s))

\* base.replace(/\/+$/, '')
RECURSIVE StripTrailingSlashes(_)
StripTrailingSlashes(s) ==
    IF Len(s) > 0 /\ SubSeq(s, Len(s), Len(s)) = "/"
    THEN StripTrailingSlashes(SubSeq(s, 1, Len(s) - 1))
    ELSE s

\* values of Date.now()
Timestamps == { 1000, 1001 }

\* `images/${Date.now()}-${fileName}`
FileKey(now, filePath) ==
    "images/" \o ToString(now) \o "-" \o Basename(filePath)

\* how r2Client.bucket(...).upload(...) settles
UploadOutcomes ==
    { Returned([uri |-> "r2://temp"]),
      Thrown(ErrorOf("socket hang up")),
      Thrown(NonError(503)) }

\* uploadImageToService after the upload has settled: the try block from
\* the await on, and its catch
UploadImageEnds(fileKey, uploaded) ==
    LET tried ==
            IF uploaded.threw THEN uploaded
            ELSE IF publicUrlBase # ""
                 THEN Returned(StripTrailingSlashes(publicUrlBase)
                               \o "/" \o fileKey)
                 ELSE Thrown(ErrorOf(
                        "No public URL configuration available for R2. Please set R2_PUBLIC_URL environment variable or configure a publicUrlBase."))
    IN IF tried.threw
       THEN Thrown(ErrorOf("Failed to upload image to R2: "
                           \o ErrorMessage(tried.error)))
       ELSE tried

BatchTools == { "read_multiple_images_base64", "upload_multiple_images" }

\* the key a fulfilled entry of each batch tool carries
PayloadKey(name) ==
    IF name = "read_multiple_images_base64" THEN "base64" ELSE "url"

\* the arguments of a call: lists of paths, and objects with one path,
\* with a prompt and with neither
ImageArguments ==
    { [paths |-> ps] : ps \in SeqsUpTo(ImagePaths, MaxPaths) }
        \cup { [path |-> "a.png"], [path |-> "missing.png"],
               [path |-> "a.png", prompt |-> "what is this?"],
               [prompt |-> "what is this?"] }

\* Schema.safeParse(args).success of z.object({paths: z.array(z.string())})
ParseSucceeds(args) == "paths" \in DOMAIN args

\* the async function of paths.map: awaiting, fulfilled or rejected
Reading(filePath) == [path |-> filePath, stage |-> "reading"]
Uploading(filePath, fileKey) ==
    [path |-> filePath, stage |-> "uploading", fileKey |-> fileKey]
Fulfilled(filePath, key, payload) ==
    [path |-> filePath, stage |-> "fulfilled",
     value |-> (key :> payload) @@ [path |-> filePath, status |-> "fulfilled"]]
\* the inner catch: Promise.reject({ path: filePath, error: errorMessage })
Rejected(filePath, error) ==
    [path |-> filePath, stage |-> "rejected",
     reason |-> [path |-> filePath, error |-> ErrorMessage(error)]]

Settled(task) == task.stage \in { "fulfilled", "rejected" }

\* a formatting that lists the results that settled ahead of an earlier
\* path first: the order of completion where the code keeps the input order
FormattedAsCompleted(name, results) ==
    LET ahead == SelectSeq(results, LAMBDA r : r.overtook)
        rest == SelectSeq(results, LAMBDA r : ~r.overtook)
        ordered == ahead \o rest
    IN [i \in 1..Len(ordered) |->
            IF ordered[i].stage = "fulfilled"
            THEN (PayloadKey(name) :> ordered[i].value[PayloadKey(name)])
                    @@ [path |-> ordered[i].value.path]
            ELSE [path |-> ordered[i].reason.path,
                  error |-> ordered[i].reason.error]]

\* a formatting that keeps the fulfilled results only
FormattedFulfilled(name, results) ==
    LET kept == SelectSeq(results, LAMBDA r : r.stage = "fulfilled")
    IN [i \in 1..Len(kept) |->
            (PayloadKey(name) :> kept[i].value[PayloadKey(name)])
                @@ [path |-> kept[i].value.path]]

\* results.map((result) => ...) over the results of Promise.allSettled
FormattedResults(name, results) ==
    [i \in 1..Len(results) |->
        IF results[i].stage = "fulfilled"
        THEN (PayloadKey(name) :> results[i].value[PayloadKey(name)])
                @@ [path |-> results[i].value.path]
        ELSE [path |-> results[i].reason.path,
              error |-> results[i].reason.error]]

\* JSON.stringify of one formatted entry at indent 2 inside the array
StringifyEntry(e) ==
    LET key == CHOOSE k \in DOMAIN e : k # "path"
    IN "  {\n    \"path\": " \o JsonString(e.path)
       \o ",\n    \"" \o key \o "\": " \o JsonString(e[key]) \o "\n  }"

RECURSIVE StringifyEntriesFrom(_, _)
StringifyEntriesFrom(es, i) ==
    IF i > Len(es) THEN ""
    ELSE (IF i > 1 THEN ",\n" ELSE "") \o StringifyEntry(es[i])
         \o StringifyEntriesFrom(es, i + 1)

\* JSON.stringify(formattedResults, null, 2)
StringifyEntries(es) ==
    IF es = <<>> THEN "[]"
    ELSE "[\n" \o StringifyEntriesFrom(es, 1) \o "\n]"

\* the tools that take one path
SingleTools ==
    { "read_image_base64", "upload_image", "describe_image",
      "query_image_with_prompt", "ocr_image" }

\* the names a tools/call request asks for: the seven tools and another name
CalledTools == BatchTools \cup SingleTools \cup { "resize_image" }

\* safeParse(args).success of z.object({path: z.string()})
ParsePathSucceeds(args) == "path" \in DOMAIN args

\* safeParse(args).success of z.object({path: z.string(), prompt: z.string()})
ParseQuerySucceeds(args) == "path" \in DOMAIN args /\ "prompt" \in DOMAIN args

\* parsed.success in the case of the tool called
ArgumentsParse(name, args) ==
    CASE name \in BatchTools -> ParseSucceeds(args)
      [] name = "query_image_with_prompt" -> ParseQuerySucceeds(args)
      [] OTHER -> ParsePathSucceeds(args)

\* what generateCompletionStandalone resolves to, or how it rejects
Completion(text) == [isNull |-> FALSE, text |-> text]
NullCompletion == [isNull |-> TRUE]
ModelOutcomes ==
    { Returned(Completion("a cat")), Returned(NullCompletion),
      Thrown(ErrorOf("rate limited")) }

\* response ?? fallback
OrElse(response, fallback) ==
    IF response.isNull THEN fallback ELSE response.text

\* queryImageWithModel from the await on: the try block and its catch
QueryImageEnds(completion) ==
    IF completion.threw
    THEN Thrown(ErrorOf("Failed to query image: "
                        \o ErrorMessage(completion.error)))
    ELSE Returned(OrElse(completion.value, "No response generated."))

\* ocrImageWithModel from the await on: the try block and its catch
OcrImageEnds(completion) ==
    IF completion.threw
    THEN Thrown(ErrorOf("Failed to perform OCR: "
                        \o ErrorMessage(completion.error)))
    ELSE Returned(OrElse(completion.value, "No text extracted."))

\* the handler body of a single-path tool awaiting the model, and ended
Querying(filePath) == [path |-> filePath, stage |-> "querying"]
Ended(filePath, outcome) ==
    [path |-> filePath, stage |-> "ended", outcome |-> outcome]

\* return { content: [{ type: 'text', text }] }
ImageTextResult(text) == [content |-> << [type |-> "text", text |-> text] >>]

\* an outer catch that lets the error go on to the caller
ImageErrorRethrown(error) == [threw |-> TRUE, error |-> error]

\* the outer catch of the call tool handler
ImageErrorResult(error) ==
    [content |-> << [type |-> "text",
                     text |-> "Error: " \o ErrorMessage(error)] >>,
     isError |-> TRUE]

ImageInit ==
    /\ ServerConstructed
    /\ TransportUnused
    /\ OthersUnused
    /\ r2Client \in BOOLEAN
    /\ publicUrlBase \in { "", "https://cdn.example", "https://cdn.example//" }
    /\ imageRequest = NoRequest
    /\ imageTasks = <<>>
    /\ imageResult = NoResult

\* the call tool handler up to its first await, or to its return when the
\* name is unknown or the arguments do not parse
ImageCallTool(name, args) ==
    /\ imageRequest = NoRequest
    /\ imageRequest' = [name |-> name, arguments |-> args]
    /\ IF name \notin BatchTools \cup SingleTools
       THEN /\ imageResult' = ImageErrorResult(ErrorOf("Unknown tool: " \o name))
            /\ UNCHANGED imageTasks
       \* `Invalid arguments for ${name}: ${parsed.error}`, the ZodError
       \* text shortened
       ELSE IF ~ArgumentsParse(name, args)
       THEN /\ imageResult' = ImageErrorResult(ErrorOf(
                    "Invalid arguments for " \o name \o ": Required"))
            /\ UNCHANGED imageTasks
       ELSE IF name \in BatchTools
       THEN /\ imageTasks' = [i \in 1..Len(args.paths) |-> Reading(args.paths[i])]
            /\ UNCHANGED imageResult
       ELSE /\ imageTasks' = << Reading(args.path) >>
            /\ UNCHANGED imageResult
    /\ UNCHANGED << r2Client, publicUrlBase >>
    /\ UNCHANGED outsideImage

\* what the handler of a single-path tool returns when its body ended
ImageOutcomeResult(outcome) ==
    IF outcome.threw THEN ImageErrorResult(outcome.error)
    ELSE ImageTextResult(outcome.value)

\* the single-path handler ends with this outcome
ImageEnds(outcome) ==
    /\ imageTasks' = << Ended(imageTasks[1].path, outcome) >>
    /\ imageResult' = ImageOutcomeResult(outcome)

\* fs.readFile settles in the case of a single-path tool, and the handler
\* goes on to its return, the outer catch, the upload or the model
ImageSingleReadSettles ==
    /\ imageRequest.name \in SingleTools
    /\ Len(imageTasks) = 1
    /\ imageTasks[1].stage = "reading"
    /\ LET filePath == imageTasks[1].path
           fileBuffer == ReadFile(filePath)
       IN IF fileBuffer.threw
          THEN ImageEnds(fileBuffer)
          ELSE IF imageRequest.name = "read_image_base64"
          THEN ImageEnds(Returned(Base64Of(fileBuffer.value)))
          ELSE IF imageRequest.name = "upload_image"
          THEN IF ~r2Client
               THEN ImageEnds(Thrown(ErrorOf(
                        "R2 client not initialized. Check your Cloudflare R2 configuration.")))
               ELSE /\ \E now \in Timestamps :
                        imageTasks' = << Uploading(filePath, FileKey(now, filePath)) >>
                    /\ UNCHANGED imageResult
          ELSE /\ imageTasks' = << Querying(filePath) >>
               /\ UNCHANGED imageResult
    /\ UNCHANGED << r2Client, publicUrlBase, imageRequest >>
    /\ UNCHANGED outsideImage

\* the upload of upload_image settles
ImageSingleUploadSettles(uploaded) ==
    /\ imageRequest.name \in SingleTools
    /\ Len(imageTasks) = 1
    /\ imageTasks[1].stage = "uploading"
    /\ ImageEnds(UploadImageEnds(imageTasks[1].fileKey, uploaded))
    /\ UNCHANGED << r2Client, publicUrlBase, imageRequest >>
    /\ UNCHANGED outsideImage

\* generateCompletionStandalone settles
ImageModelSettles(completion) ==
    /\ imageRequest.name \in SingleTools
    /\ Len(imageTasks) = 1
    /\ imageTasks[1].stage = "querying"
    /\ ImageEnds(IF imageRequest.name = "ocr_image"
                 THEN OcrImageEnds(completion)
                 ELSE QueryImageEnds(completion))
    /\ UNCHANGED << r2Client, publicUrlBase, imageRequest >>
    /\ UNCHANGED outsideImage

\* the i-th promise settles as task; overtook tells whether the promise of
\* an earlier path was still pending then
SettlesAs(i, task) ==
    ("overtook" :> (\E j \in 1..(i - 1) : ~Settled(imageTasks[j]))) @@ task

\* fs.readFile of the i-th path settles and its async function goes on to
\* its return, its catch or the upload
ImageReadSettles(i) ==
    /\ imageRequest.name \in BatchTools
    /\ i \in 1..Len(imageTasks)
    /\ imageTasks[i].stage = "reading"
    /\ LET filePath == imageTasks[i].path
           fileBuffer == ReadFile(filePath)
       IN IF fileBuffer.threw
          THEN imageTasks' =
                [imageTasks EXCEPT
                    ![i] = SettlesAs(i, Rejected(filePath, fileBuffer.error))]
          ELSE IF imageRequest.name = "read_multiple_images_base64"
          THEN imageTasks' =
                [imageTasks EXCEPT
                    ![i] = SettlesAs(i, Fulfilled(filePath, "base64",
                                        Base64Of(fileBuffer.value)))]
          ELSE IF ~r2Client
          THEN imageTasks' =
                [imageTasks EXCEPT
                    ![i] = SettlesAs(i, Rejected(filePath, ErrorOf(
                        "R2 client not initialized. Check your Cloudflare R2 configuration.")))]
          ELSE \E now \in Timestamps :
                imageTasks' =
                    [imageTasks EXCEPT
                        ![i] = Uploading(filePath, FileKey(now, filePath))]
    /\ UNCHANGED << r2Client, publicUrlBase, imageRequest, imageResult >>
    /\ UNCHANGED outsideImage

\* the upload of the i-th path settles
ImageUploadSettles(i, uploaded) ==
    /\ imageRequest.name \in BatchTools
    /\ i \in 1..Len(imageTasks)
    /\ imageTasks[i].stage = "uploading"
    /\ LET filePath == imageTasks[i].path
           url == UploadImageEnds(imageTasks[i].fileKey, uploaded)
       IN imageTasks' =
            [imageTasks EXCEPT
                ![i] = SettlesAs(i, IF url.threw
                                    THEN Rejected(filePath, url.error)
                                    ELSE Fulfilled(filePath, "url", url.value))]
    /\ UNCHANGED << r2Client, publicUrlBase, imageRequest, imageResult >>
    /\ UNCHANGED outsideImage

\* Promise.allSettled resolves and the handler returns
ImageCallReturns ==
    /\ imageRequest.name \in BatchTools
    /\ imageResult = NoResult
    /\ \A i \in 1..Len(imageTasks) : Settled(imageTasks[i])
    /\ imageResult' =
        [content |-> << [type |-> "text",
                         text |-> StringifyEntries(
                            FormattedResults(imageRequest.name, imageTasks))] >>]
    /\ UNCHANGED << r2Client, publicUrlBase, imageRequest, imageTasks >>
    /\ UNCHANGED outsideImage

ImageNext ==
    \/ /\ imageRequest = NoRequest
       /\ \E name \in CalledTools, args \in ImageArguments :
                ImageCallTool(name, args)
    \/ ImageSingleReadSettles
    \/ \E uploaded \in UploadOutcomes : ImageSingleUploadSettles(uploaded)
    \/ \E completion \in ModelOutcomes : ImageModelSettles(completion)
    \/ \E i \in 1..MaxPaths : ImageReadSettles(i)
    \/ \E i \in 1..MaxPaths, uploaded \in UploadOutcomes :
            ImageUploadSettles(i, uploaded)
    \/ ImageCallReturns

SpecImage == ImageInit /\ [][ImageNext]_vars

\* ------------------------------------------------------ getInMemoryServer
\* args[i] of a JavaScript array, counted from 1 here: undefined past the end
ArgAt(args, i) == IF i <= Len(args) THEN Str(args[i]) ELSE Undefined

\* a && b && c on optional strings: undefined and '' are falsy
Truthy(v) == v.t = "string" /\ v.s # ""

\* bucketName ?? 'temp'
BucketOr(bucketName, fallback) ==
    IF bucketName.t = "undefined" THEN fallback ELSE bucketName.s

\* the names the list tools handler of the ImageServer answers with
ImageToolNames ==
    << "read_image_base64", "upload_image", "read_multiple_images_base64",
       "upload_multiple_images", "describe_image", "query_image_with_prompt",
       "ocr_image" >>

\* new ImageServer(...): the fields it leaves; r2Constructs tells whether
\* new R2(...) returns or throws inside initializeR2Client
ImageServerConstructor(provider, model, accountId, accessKeyId, secretAccessKey, endpoint, bucketName, urlBase, r2Constructs) ==
    LET configured ==
            Truthy(accountId) /\ Truthy(accessKeyId) /\ Truthy(secretAccessKey)
    IN [kind |-> "ImageServer",
        provider |-> provider,
        model |-> model,
        r2Client |-> configured /\ r2Constructs,
        bucketName |-> IF configured THEN Str(BucketOr(bucketName, "temp"))
                       ELSE Undefined,
        publicUrlBase |-> urlBase,
        listed |-> ImageToolNames]

\* the three servers whose classes are in other files
FileSystemServer(args) == [kind |-> "FileSystemServer", args |-> args]
ArtifactsServer == [kind |-> "ArtifactsServer"]
BochaSearchServer(env) == [kind |-> "BochaSearchServer", env |-> env]

\* a default case that returns nothing instead of throwing
GetInMemoryServerLenient(serverName, args, env, r2Constructs) ==
    CASE serverName = "buildInFileSystem" -> Returned(FileSystemServer(args))
      [] serverName = "Artifacts" -> Returned(ArtifactsServer)
      [] serverName = "bochaSearch" -> Returned(BochaSearchServer(env))
      [] serverName = "imageServer" ->
            Returned(ImageServerConstructor(
                ArgAt(args, 1), ArgAt(args, 2), ArgAt(args, 3), ArgAt(args, 4),
                ArgAt(args, 5), ArgAt(args, 6), Undefined, Undefined,
                r2Constructs))
      [] OTHER -> Returned(Undefined)

\* getInMemoryServer(serverName, args, env)
GetInMemoryServer(serverName, args, env, r2Constructs) ==
    CASE serverName = "buildInFileSystem" -> Returned(FileSystemServer(args))
      [] serverName = "Artifacts" -> Returned(ArtifactsServer)
      [] serverName = "bochaSearch" -> Returned(BochaSearchServer(env))
      [] serverName = "imageServer" ->
            Returned(ImageServerConstructor(
                ArgAt(args, 1), ArgAt(args, 2), ArgAt(args, 3), ArgAt(args, 4),
                ArgAt(args, 5), ArgAt(args, 6), Undefined, Undefined,
                r2Constructs))
      [] OTHER -> Thrown(ErrorOf("Unknown in-memory server: " \o serverName))

\* the names, argument lists and environments the callers pass
RecognisedNames == { "buildInFileSystem", "Artifacts", "bochaSearch", "imageServer" }
ServerNames == RecognisedNames \cup { "imageserver", "" }
FactoryArgs ==
    { <<>>,
      << "openai", "gpt-4o" >>,
      << "openai", "gpt-4o", "account", "key-id", "secret",
         "https://r2.example" >>,
      << "openai", "gpt-4o", "account", "key-id", "secret",
         "https://r2.example", "images", "https://cdn.example" >> }
FactoryEnvs == { Undefined, [t |-> "object", BOCHA_API_KEY |-> "k"] }

FactoryInit ==
    /\ ServerConstructed
    /\ TransportUnused
    /\ ImageUnused
    /\ CopilotUnused
    /\ FactoryUnused
    /\ RendererUnused

\* a caller calls getInMemoryServer; a server it constructs is a new object,
\* told apart by its number
GetInMemoryServerCall(serverName, args, env, r2Constructs) ==
    /\ Len(factoryCalls) < MaxBuilds
    /\ LET out == GetInMemoryServer(serverName, args, env, r2Constructs)
           constructed == ~out.threw /\ out.value # Undefined
       IN /\ instances' = IF constructed THEN instances + 1 ELSE instances
          /\ factoryCalls' =
                Append(factoryCalls,
                       [serverName |-> serverName, args |-> args, env |-> env,
                        out |-> out,
                        instance |-> IF constructed THEN instances + 1 ELSE 0])
    /\ UNCHANGED outsideFactory

FactoryNext ==
    \E serverName \in ServerNames, args \in FactoryArgs, env \in FactoryEnvs,
       r2Constructs \in BOOLEAN :
        GetInMemoryServerCall(serverName, args, env, r2Constructs)

SpecFactory == FactoryInit /\ [][FactoryNext]_vars

\* ------------------------------------------- CopilotService.completeStream
\* s.startsWith(prefix)
StartsWith(s, prefix) ==
    Len(s) >= Len(prefix) /\ SubSeq(s, 1, Len(prefix)) = prefix

\* s.indexOf('\n') counted from 1 and from position i on, 0 when there is none
RECURSIVE IndexOfNewline(_, _)
IndexOfNewline(s, i) ==
    IF i > Len(s) THEN 0
    ELSE IF SubSeq(s, i, i) = "\n" THEN i ELSE IndexOfNewline(s, i + 1)

\* s.trim() for blanks
RECURSIVE Trim(_)
Trim(s) ==
    IF Len(s) > 0 /\ SubSeq(s, 1, 1) = " " THEN Trim(SubSeq(s, 2, Len(s)))
    ELSE IF Len(s) > 0 /\ SubSeq(s, Len(s), Len(s)) = " "
         THEN Trim(SubSeq(s, 1, Len(s) - 1))
         ELSE s

\* the JSON text of a completion delta with this content
DeltaJson(content) ==
    "{\"choices\":[{\"delta\":{\"content\":\"" \o content \o "\"}}]}"

\* the contents the service sends
Contents == { "Hel", "lo", "!" }

\* JSON.parse(jsonStr) and the choices[0].delta.content of it: "" stands for
\* a parse error and for every value the if of line 277 takes as false
DeltaContent(jsonStr) ==
    IF \E c \in Contents : Trim(jsonStr) = DeltaJson(c)
    THEN CHOOSE c \in Contents : Trim(jsonStr) = DeltaJson(c)
    ELSE ""

\* the chunks of the response stream: one line, two lines, the end marker,
\* and a line whose newline comes with the next chunk
Chunks ==
    { "data: " \o DeltaJson("Hel") \o "\n",
      "data: " \o DeltaJson("lo") \o "\ndata: " \o DeltaJson("!") \o "\n",
      "data: [DONE]\n",
      ": keep-alive" }

\* the while loop of lines 266-285 on buffer, up to its first yield or
\* return, or to the end of the lines in the buffer
RECURSIVE RunBuffer(_)
RunBuffer(buffer) ==
    LET newlineIndex == IndexOfNewline(buffer, 1)
    IN IF newlineIndex = 0 THEN [kind |-> "more", buffer |-> buffer]
       ELSE LET line == Trim(SubSeq(buffer, 1, newlineIndex - 1))
                rest == SubSeq(buffer, newlineIndex + 1, Len(buffer))
            IN IF ~StartsWith(line, "data: ") THEN RunBuffer(rest)
               ELSE LET jsonStr == SubSeq(line, 6, Len(line))
                    IN IF jsonStr = "[DONE]"
                       THEN [kind |-> "return", buffer |-> rest]
                       ELSE IF DeltaContent(jsonStr) # ""
                       THEN [kind |-> "yield", buffer |-> rest,
                             content |-> DeltaContent(jsonStr)]
                       ELSE RunBuffer(rest)

\* a completeStream call: where its generator stands, its buffer, whether
\* and by whom its signal was aborted, the content its consumer holds,
\* whether it yielded content after the abort, how it ended, how many
\* calls had started when it ended and how many had ended when it was aborted
NewStream ==
    [pc |-> "requesting", buffer |-> "", aborted |-> "no", yielding |-> "",
     late |-> FALSE, outcome |-> "none", endedAfter |-> 0, endedAtAbort |-> 0]

Aborted(stream) == stream.aborted # "no"
Outstanding(stream) == stream.pc # "done"

\* controller.abort() of the controller of call n, by who
Abort(ss, n, who) ==
    [ss EXCEPT ![n].aborted = IF @ = "no" THEN who ELSE @,
               ![n].endedAtAbort =
                    Cardinality({ m \in 1..Len(ss) : ss[m].pc = "done" })]

\* a finally that clears the field whoever owns the controller
FinallyClearsAny(current, signal) == 0

\* the finally block: the field afterwards
FinallyClears(current, signal) ==
    IF current # 0 /\ current = signal THEN 0 ELSE current

\* the generator of call n leaves its body through the finally block
Finish(ss, n, outcome) ==
    /\ streams' = [ss EXCEPT ![n].pc = "done", ![n].outcome = outcome,
                             ![n].yielding = "", ![n].buffer = "",
                             ![n].endedAfter = Len(ss)]
    /\ currentAbortController' = FinallyClears(currentAbortController, n)

\* the generator of call n goes through the while loop on buffer
Run(n, buffer) ==
    LET ran == RunBuffer(buffer)
    IN CASE ran.kind = "yield" ->
                /\ streams' = [streams EXCEPT
                                ![n].pc = "yielded",
                                ![n].buffer = ran.buffer,
                                ![n].yielding = ran.content,
                                ![n].late = @ \/ Aborted(streams[n])]
                /\ UNCHANGED currentAbortController
         [] ran.kind = "return" -> Finish(streams, n, "returned")
         [] OTHER ->
                /\ streams' = [streams EXCEPT ![n].pc = "reading",
                                              ![n].buffer = ran.buffer,
                                              ![n].yielding = ""]
                /\ UNCHANGED currentAbortController

StreamInit ==
    /\ ServerConstructed
    /\ TransportUnused
    /\ ImageUnused
    /\ FactoryUnused
    /\ CopilotUnused
    /\ RendererUnused

\* a completeStream that installs its controller without looking for one
CompleteStreamKeepsEarlier ==
    /\ Len(streams) < MaxStreams
    /\ streams' = Append(streams, NewStream)
    /\ currentAbortController' = Len(streams) + 1
    /\ UNCHANGED outsideStreams

\* the consumer starts a completeStream generator: the body up to the await
\* of axios.post
CompleteStreamStarts ==
    /\ Len(streams) < MaxStreams
    /\ LET cancelled == IF currentAbortController # 0
                        THEN Abort(streams, currentAbortController, "superseded")
                        ELSE streams
       IN streams' = Append(cancelled, NewStream)
    /\ currentAbortController' = Len(streams) + 1
    /\ UNCHANGED outsideStreams

\* cancelCurrentStream()
CancelCurrentStream ==
    /\ IF currentAbortController # 0
       THEN /\ streams' = Abort(streams, currentAbortController, "client")
            /\ currentAbortController' = 0
       ELSE UNCHANGED << streams, currentAbortController >>
    /\ UNCHANGED outsideStreams

\* axios.post settles: with the response, with an error, or, the signal
\* aborted, with the cancel error
AxiosPostSettles(n, how) ==
    /\ n \in 1..Len(streams)
    /\ streams[n].pc = "requesting"
    /\ CASE how = "response" ->
                /\ streams' = [streams EXCEPT ![n].pc = "reading"]
                /\ UNCHANGED currentAbortController
         [] how = "error" -> Finish(streams, n, "failed")
         [] OTHER -> Aborted(streams[n]) /\ Finish(streams, n, "returned")
    /\ UNCHANGED outsideStreams

\* the response stream gives a chunk to the for await loop
ChunkArrives(n, chunk) ==
    /\ n \in 1..Len(streams)
    /\ streams[n].pc = "reading"
    /\ IndexOfNewline(chunk, 1) = 0 => streams[n].buffer = ""
    /\ IF Aborted(streams[n])
       THEN Finish(streams, n, "cancelled")
       ELSE Run(n, streams[n].buffer \o chunk)
    /\ UNCHANGED outsideStreams

\* the response stream ends, fails, or, the signal aborted, is destroyed
\* with the cancel error
StreamCloses(n, how) ==
    /\ n \in 1..Len(streams)
    /\ streams[n].pc = "reading"
    /\ CASE how = "end" -> Finish(streams, n, "returned")
         [] how = "error" -> Finish(streams, n, "failed")
         [] OTHER -> Aborted(streams[n]) /\ Finish(streams, n, "returned")
    /\ UNCHANGED outsideStreams

\* the consumer takes the content and asks for the next: the generator
\* goes on after its yield
ConsumerNext(n) ==
    /\ n \in 1..Len(streams)
    /\ streams[n].pc = "yielded"
    /\ Run(n, streams[n].buffer)
    /\ UNCHANGED outsideStreams

\* the consumer leaves its loop: generator.return() runs the finally block
ConsumerReturns(n) ==
    /\ n \in 1..Len(streams)
    /\ streams[n].pc = "yielded"
    /\ Finish(streams, n, "returned")
    /\ UNCHANGED outsideStreams

Settlings == { "response", "error", "cancelled" }
Closings == { "end", "error", "cancelled" }

StreamNext ==
    \/ CompleteStreamStarts
    \/ CancelCurrentStream
    \/ \E n \in 1..MaxStreams, how \in Settlings : AxiosPostSettles(n, how)
    \/ \E n \in 1..MaxStreams, chunk \in Chunks : ChunkArrives(n, chunk)
    \/ \E n \in 1..MaxStreams, how \in Closings : StreamCloses(n, how)
    \/ \E n \in 1..MaxStreams : ConsumerNext(n)
    \/ \E n \in 1..MaxStreams : ConsumerReturns(n)

SpecStreams == StreamInit /\ [][StreamNext]_vars

\* ----------------------------------------- CopilotService.getCopilotToken
\* how the token request of one attempt settles: a response with a token, a
\* response without one, an error whose response says the authorization is
\* pending, an error with another response, an error with no response
TokenOutcomes ==
    { Returned([data |-> [access_token |-> "gho_1"]]),
      Returned([data |-> [error |-> "authorization_pending"]]),
      Thrown([response |-> [data |-> [error |-> "authorization_pending"]]]),
      Thrown([response |-> [data |-> [error |-> "access_denied"]]]),
      Thrown([message |-> "Network Error"]) }

\* response.data && response.data.access_token
HasToken(response) ==
    /\ "data" \in DOMAIN response
    /\ "access_token" \in DOMAIN response.data
    /\ response.data.access_token # ""

\* error.response && error.response.data
\*     && error.response.data.error === 'authorization_pending'
IsPending(error) ==
    /\ "response" \in DOMAIN error
    /\ "data" \in DOMAIN error.response
    /\ "error" \in DOMAIN error.response.data
    /\ error.response.data.error = "authorization_pending"

\* a loop test that lets one more attempt through
PollAgainInclusive(n) == n <= MAX_POLLING_ATTEMPTS

\* the test of the while loop
PollAgain(n) == n < MAX_POLLING_ATTEMPTS

PollReturned(data) == [pc |-> "done", threw |-> FALSE, data |-> data]
PollThrew(message) == [pc |-> "done", threw |-> TRUE, message |-> message]

\* the top of the while loop: the next request, or the throw after the loop
LoopTop(n) ==
    IF PollAgain(n) THEN [pc |-> "requesting"]
    ELSE PollThrew("Max polling attempts reached for GitHub access token.")

PollInit ==
    /\ ServerConstructed
    /\ TransportUnused
    /\ ImageUnused
    /\ FactoryUnused
    /\ CopilotUnused
    /\ RendererUnused

\* getCopilotToken is called: up to the first await
GetCopilotTokenCall ==
    /\ polling = NotPolling
    /\ attempts' = 0
    /\ currentDelay' = INITIAL_POLLING_DELAY_MS
    /\ polling' = LoopTop(0)
    /\ UNCHANGED polled
    /\ UNCHANGED outsidePolling

\* the token request settles: return, the catch block, or on to the delay
TokenRequestSettles(outcome) ==
    /\ polling.pc = "requesting"
    /\ polled' = Append(polled, outcome)
    /\ polling' =
        IF outcome.threw
        THEN IF IsPending(outcome.error) THEN [pc |-> "delaying"]
             ELSE PollThrew("Failed to poll for GitHub access token.")
        ELSE IF HasToken(outcome.value) THEN PollReturned(outcome.value.data)
             ELSE [pc |-> "delaying"]
    /\ UNCHANGED << attempts, currentDelay >>
    /\ UNCHANGED outsidePolling

\* the delay is over: the end of the loop body, and the loop test
DelayElapses ==
    /\ polling.pc = "delaying"
    /\ currentDelay' = currentDelay + POLLING_INTERVAL_MS
    /\ attempts' = attempts + 1
    /\ polling' = LoopTop(attempts + 1)
    /\ UNCHANGED polled
    /\ UNCHANGED outsidePolling

PollNext ==
    \/ GetCopilotTokenCall
    \/ \E outcome \in TokenOutcomes : TokenRequestSettles(outcome)
    \/ DelayElapses

\* token requests settle and timers fire
SpecPolling == PollInit /\ [][PollNext]_vars /\ WF_vars(PollNext)

\* ------------------------------------------ the preload api: api.copilot
\* one completeStream call: whether the main process may still send events
\* for it, whether cancelStream was called since, the stream-chunk events
\* sent for it, the times its callbacks ran, and the times they ran for an
\* event of another call's stream
NewRequest ==
    [open |-> TRUE, cancelled |-> FALSE, sent |-> 0,
     onChunk |-> 0, onError |-> 0, onEnd |-> 0, foreign |-> 0]

PreloadInit ==
    /\ ServerConstructed
    /\ TransportUnused
    /\ ImageUnused
    /\ FactoryUnused
    /\ CopilotUnused
    /\ RendererUnused

\* ipcRenderer.removeListener of the three handlers of the calls in gone
RemoveHandlers(gone) == [c \in Channels |-> ipcListeners[c] \ gone]

\* api.copilot.completeStream: the request is sent, the three handlers are
\* added
CompleteStream ==
    /\ Len(preloadStreams) < MaxRequests
    /\ preloadStreams' = Append(preloadStreams, NewRequest)
    /\ ipcListeners' =
        [c \in Channels |-> ipcListeners[c] \cup { Len(preloadStreams) + 1 }]
    /\ UNCHANGED outsidePreload

\* api.copilot.cancelStream: removeAllListeners on the three channels
CancelStream ==
    /\ preloadStreams # <<>>
    /\ ipcListeners' = [c \in Channels |-> {}]
    /\ preloadStreams' =
        [k \in 1..Len(preloadStreams) |->
            [preloadStreams[k] EXCEPT !.cancelled = TRUE]]
    /\ UNCHANGED outsidePreload

\* the main process sends a stream-chunk for the stream of call k: every
\* chunkHandler on the channel runs
StreamChunkArrives(k) ==
    /\ k \in 1..Len(preloadStreams)
    /\ preloadStreams[k].open
    /\ preloadStreams[k].sent < MaxChunks
    /\ LET heard == ipcListeners["copilot:stream-chunk"]
       IN preloadStreams' =
            [s \in 1..Len(preloadStreams) |->
                [preloadStreams[s] EXCEPT
                    !.sent = IF s = k THEN @ + 1 ELSE @,
                    !.onChunk = IF s \in heard THEN @ + 1 ELSE @,
                    !.foreign = IF s \in heard /\ s # k THEN @ + 1 ELSE @]]
    /\ UNCHANGED ipcListeners
    /\ UNCHANGED outsidePreload

\* the main process sends stream-error or stream-end for the stream of call
\* k: every errorHandler, or endHandler, on the channel removes its call's
\* three handlers and runs its callback
StreamTerminates(k, channel) ==
    /\ k \in 1..Len(preloadStreams)
    /\ preloadStreams[k].open
    /\ LET heard == ipcListeners[channel]
       IN /\ ipcListeners' = RemoveHandlers(heard)
          /\ preloadStreams' =
                [s \in 1..Len(preloadStreams) |->
                    [preloadStreams[s] EXCEPT
                        !.open = IF s = k THEN FALSE ELSE @,
                        !.onError = IF s \in heard
                                       /\ channel = "copilot:stream-error"
                                    THEN @ + 1 ELSE @,
                        !.onEnd = IF s \in heard
                                     /\ channel = "copilot:stream-end"
                                  THEN @ + 1 ELSE @,
                        !.foreign = IF s \in heard /\ s # k THEN @ + 1 ELSE @]]
    /\ UNCHANGED outsidePreload

PreloadNext ==
    \/ CompleteStream
    \/ CancelStream
    \/ \E k \in 1..MaxRequests : StreamChunkArrives(k)
    \/ \E k \in 1..MaxRequests,
          channel \in { "copilot:stream-error", "copilot:stream-end" } :
            StreamTerminates(k, channel)

SpecPreload == PreloadInit /\ [][PreloadNext]_vars

\* ------------------------------------------------- the copilot store
\* how apiGetAuthMessage settles
AuthMessages ==
    { Returned([device_code |-> "dc", interval |-> 5, expires_in |-> 10]),
      Thrown(ErrorOf("no network")) }

\* how apiGetCopilotToken settles
TokenResponses ==
    { Returned([access_token |-> "gho_1"]),
      Returned([error |-> "authorization_pending"]),
      Returned([error |-> "expired_token"]),
      Thrown(ErrorOf("poll failed")) }

\* how apiSaveCopilotToken and apiLogout settle
VoidOutcomes == { Returned(Null), Thrown(ErrorOf("ipc failed")) }

\* how apiGetToken settles
CopilotTokens ==
    { Returned([token |-> "tid", expires_at |-> 1, refresh_in |-> 1]),
      Thrown(ErrorOf("no token")) }

\* how apiGetUser settles
Users ==
    { Returned([login |-> "octocat"]), Thrown(ErrorOf("no user")) }

\* (authData.interval || 5) * 1000
PollIntervalOf(authData) ==
    (IF authData.interval # 0 THEN authData.interval ELSE 5) * 1000

\* Math.floor((authData.expires_in * 1000) / pollInterval) || 120
MaxAttemptsOf(authData) ==
    LET n == (authData.expires_in * 1000) \div PollIntervalOf(authData)
    IN IF n # 0 THEN n ELSE 120

\* a login call: where its body stands, its promise, its attempts and
\* maxAttempts, and where the timer callback in flight stands
NewLogin ==
    [pc |-> "authMessage", promise |-> "pending", attempts |-> 0,
     maxAttempts |-> 0, tick |-> "none"]

\* resolve() or reject() of the n-th login's promise: the first one counts
SettleLogin(ls, n, how) ==
    [ls EXCEPT ![n].promise = IF @ = "pending" THEN how ELSE @]

\* clearInterval(pollingIntervalId)
ClearInterval == timers \ { pollingIntervalId }

\* isAuthenticated, the tokens and the user are as logout leaves them
LoginStateClear ==
    /\ isAuthenticated = FALSE
    /\ user = Null
    /\ copilotToken = Null
    /\ githubAccessToken = Null

StoreInit ==
    /\ ServerConstructed
    /\ TransportUnused
    /\ ImageUnused
    /\ FactoryUnused
    /\ CopilotUnused
    /\ RendererUnused

\* login(), up to its await of apiGetAuthMessage()
Login ==
    /\ Len(logins) < MaxLogins
    /\ isLoading' = TRUE
    /\ errorValue' = Null
    /\ timers' = ClearInterval
    /\ logins' = Append(logins, NewLogin)
    /\ cleared' = FALSE
    /\ UNCHANGED << isAuthenticated, user, deviceCodeInfo, copilotToken,
                    githubAccessToken, pollingIntervalId, logouts >>
    /\ UNCHANGED outsideStore

\* apiGetAuthMessage() settles: the catch block, or setInterval
AuthMessageSettles(n, outcome) ==
    /\ n \in 1..Len(logins)
    /\ logins[n].pc = "authMessage"
    /\ IF outcome.threw
       THEN /\ errorValue' = Str(outcome.error.message)
            /\ isLoading' = FALSE
            /\ deviceCodeInfo' = Null
            /\ timers' = ClearInterval
            /\ pollingIntervalId' = 0
            /\ logins' = [logins EXCEPT ![n].pc = "done",
                                        ![n].promise = "rejected"]
       ELSE /\ deviceCodeInfo' = outcome.value
            /\ timers' = timers \cup { n }
            /\ pollingIntervalId' = n
            /\ logins' = [logins EXCEPT
                            ![n].pc = "polling",
                            ![n].maxAttempts = MaxAttemptsOf(outcome.value)]
            /\ UNCHANGED << isLoading, errorValue >>
    /\ UNCHANGED << isAuthenticated, user, copilotToken, githubAccessToken,
                    logouts, cleared >>
    /\ UNCHANGED outsideStore

\* the timer of the n-th login fires: the callback up to its first await
TimerFires(n) ==
    /\ n \in timers
    /\ logins[n].tick = "none"
    /\ logins[n].attempts < MaxTicks
    /\ IF logins[n].attempts + 1 > logins[n].maxAttempts
       THEN /\ timers' = ClearInterval
            /\ pollingIntervalId' = 0
            /\ errorValue' = Str("Login timed out. Please try again.")
            /\ isLoading' = FALSE
            /\ deviceCodeInfo' = Null
            /\ logins' = SettleLogin([logins EXCEPT ![n].attempts = @ + 1],
                                     n, "rejected")
       ELSE IF deviceCodeInfo = Null
       THEN /\ timers' = ClearInterval
            /\ pollingIntervalId' = 0
            /\ isLoading' = FALSE
            /\ logins' = SettleLogin([logins EXCEPT ![n].attempts = @ + 1],
                                     n, "rejected")
            /\ UNCHANGED << errorValue, deviceCodeInfo >>
       ELSE /\ logins' = [logins EXCEPT ![n].attempts = @ + 1,
                                        ![n].tick = "token"]
            /\ UNCHANGED << timers, pollingIntervalId, errorValue, isLoading,
                            deviceCodeInfo >>
    /\ UNCHANGED << isAuthenticated, user, copilotToken, githubAccessToken,
                    logouts, cleared >>
    /\ UNCHANGED outsideStore

\* apiGetCopilotToken settles in the callback of the n-th login
TokenSettles(n, outcome) ==
    /\ n \in 1..Len(logins)
    /\ logins[n].tick = "token"
    /\ IF outcome.threw
       THEN /\ logins' = [logins EXCEPT ![n].tick = "none"]
            /\ UNCHANGED << timers, pollingIntervalId, deviceCodeInfo,
                            githubAccessToken, errorValue, isLoading >>
       ELSE IF "access_token" \in DOMAIN outcome.value
       THEN /\ timers' = ClearInterval
            /\ pollingIntervalId' = 0
            /\ deviceCodeInfo' = Null
            /\ githubAccessToken' = Str(outcome.value.access_token)
            /\ logins' = [logins EXCEPT ![n].tick = "save"]
            /\ UNCHANGED << errorValue, isLoading >>
       ELSE IF /\ "error" \in DOMAIN outcome.value
               /\ outcome.value.error # "authorization_pending"
       THEN /\ timers' = ClearInterval
            /\ pollingIntervalId' = 0
            /\ errorValue' = Str("Login failed: " \o outcome.value.error)
            /\ isLoading' = FALSE
            /\ deviceCodeInfo' = Null
            /\ logins' = SettleLogin([logins EXCEPT ![n].tick = "none"],
                                     n, "rejected")
            /\ UNCHANGED githubAccessToken
       ELSE /\ logins' = [logins EXCEPT ![n].tick = "none"]
            /\ UNCHANGED << timers, pollingIntervalId, deviceCodeInfo,
                            githubAccessToken, errorValue, isLoading >>
    /\ UNCHANGED << isAuthenticated, user, copilotToken, logouts, cleared >>
    /\ UNCHANGED outsideStore

\* apiSaveCopilotToken settles: on to fetchAndSetCopilotToken up to its
\* await, or to the empty catch block of the callback
SaveSettles(n, outcome) ==
    /\ n \in 1..Len(logins)
    /\ logins[n].tick = "save"
    /\ IF outcome.threw
       THEN /\ logins' = [logins EXCEPT ![n].tick = "none"]
            /\ UNCHANGED << isLoading, errorValue >>
       ELSE /\ isLoading' = TRUE
            /\ errorValue' = Null
            /\ logins' = [logins EXCEPT ![n].tick = "getToken"]
    /\ UNCHANGED << isAuthenticated, user, deviceCodeInfo, copilotToken,
                    githubAccessToken, pollingIntervalId, timers, logouts,
                    cleared >>
    /\ UNCHANGED outsideStore

\* apiGetToken settles: the rest of fetchAndSetCopilotToken, then the
\* callback up to the await in fetchAndSetUser, or to its reject
GetTokenSettles(n, outcome) ==
    /\ n \in 1..Len(logins)
    /\ logins[n].tick = "getToken"
    /\ IF outcome.threw
       THEN /\ errorValue' = Str(outcome.error.message)
            /\ copilotToken' = Null
            /\ isAuthenticated' = FALSE
            /\ isLoading' = FALSE
            /\ logins' = SettleLogin([logins EXCEPT ![n].tick = "none"],
                                     n, "rejected")
       ELSE IF githubAccessToken = Null
       THEN /\ copilotToken' = outcome.value
            /\ errorValue' =
                Str("GitHub access token is required to fetch user details.")
            /\ isAuthenticated' = TRUE
            /\ isLoading' = FALSE
            /\ logins' = SettleLogin([logins EXCEPT ![n].tick = "none"],
                                     n, "rejected")
       ELSE /\ copilotToken' = outcome.value
            /\ isLoading' = FALSE
            /\ logins' = [logins EXCEPT ![n].tick = "getUser"]
            /\ UNCHANGED << errorValue, isAuthenticated >>
    /\ UNCHANGED << user, deviceCodeInfo, githubAccessToken,
                    pollingIntervalId, timers, logouts, cleared >>
    /\ UNCHANGED outsideStore

\* apiGetUser settles: the rest of fetchAndSetUser and of the callback
GetUserSettles(n, outcome) ==
    /\ n \in 1..Len(logins)
    /\ logins[n].tick = "getUser"
    /\ IF outcome.threw
       THEN /\ errorValue' = Str(outcome.error.message)
            /\ logins' = SettleLogin([logins EXCEPT ![n].tick = "none"],
                                     n, "rejected")
            /\ UNCHANGED user
       ELSE /\ user' = outcome.value
            /\ logins' = SettleLogin([logins EXCEPT ![n].tick = "none"],
                                     n, "resolved")
            /\ UNCHANGED errorValue
    /\ isAuthenticated' = TRUE
    /\ isLoading' = FALSE
    /\ UNCHANGED << deviceCodeInfo, copilotToken, githubAccessToken,
                    pollingIntervalId, timers, logouts, cleared >>
    /\ UNCHANGED outsideStore

\* cancelLoginPolling()
CancelLoginPolling ==
    /\ logins # <<>>
    /\ timers' = ClearInterval
    /\ pollingIntervalId' = 0
    /\ deviceCodeInfo' = Null
    /\ isLoading' = FALSE
    /\ errorValue' = IF ~isAuthenticated
                     THEN Str("Login process cancelled by user.")
                     ELSE errorValue
    /\ cleared' = (cleared \/ LoginStateClear)
    /\ UNCHANGED << isAuthenticated, user, copilotToken, githubAccessToken,
                    logins, logouts >>
    /\ UNCHANGED outsideStore

\* logout(), up to its await of apiLogout()
Logout ==
    /\ Len(logouts) < MaxLogouts
    /\ isLoading' = TRUE
    /\ errorValue' = Null
    /\ timers' = ClearInterval
    /\ pollingIntervalId' = 0
    /\ logouts' = Append(logouts, "awaiting")
    /\ UNCHANGED << isAuthenticated, user, deviceCodeInfo, copilotToken,
                    githubAccessToken, logins, cleared >>
    /\ UNCHANGED outsideStore

\* apiLogout() settles: the catch block only warns, the finally block clears
LogoutSettles(k, outcome) ==
    /\ k \in 1..Len(logouts)
    /\ logouts[k] = "awaiting"
    /\ isAuthenticated' = FALSE
    /\ user' = Null
    /\ copilotToken' = Null
    /\ githubAccessToken' = Null
    /\ deviceCodeInfo' = Null
    /\ errorValue' = Null
    /\ isLoading' = FALSE
    /\ logouts' = [logouts EXCEPT ![k] = IF outcome.threw THEN "done, api failed"
                                         ELSE "done"]
    /\ cleared' = TRUE
    /\ UNCHANGED << pollingIntervalId, timers, logins >>
    /\ UNCHANGED outsideStore

StoreNext ==
    \/ Login
    \/ \E n \in 1..MaxLogins, outcome \in AuthMessages :
            AuthMessageSettles(n, outcome)
    \/ \E n \in 1..MaxLogins : TimerFires(n)
    \/ \E n \in 1..MaxLogins, outcome \in TokenResponses :
            TokenSettles(n, outcome)
    \/ \E n \in 1..MaxLogins, outcome \in VoidOutcomes : SaveSettles(n, outcome)
    \/ \E n \in 1..MaxLogins, outcome \in CopilotTokens :
            GetTokenSettles(n, outcome)
    \/ \E n \in 1..MaxLogins, outcome \in Users : GetUserSettles(n, outcome)
    \/ CancelLoginPolling
    \/ Logout
    \/ \E k \in 1..MaxLogouts, outcome \in VoidOutcomes : LogoutSettles(k, outcome)

\* the timers fire and the backend calls settle; nobody has to call the store
StoreFairness ==
    \A n \in 1..MaxLogins :
        /\ WF_vars(TimerFires(n))
        /\ WF_vars(\E outcome \in AuthMessages : AuthMessageSettles(n, outcome))
        /\ WF_vars(\E outcome \in TokenResponses : TokenSettles(n, outcome))
        /\ WF_vars(\E outcome \in VoidOutcomes : SaveSettles(n, outcome))
        /\ WF_vars(\E outcome \in CopilotTokens : GetTokenSettles(n, outcome))
        /\ WF_vars(\E outcome \in Users : GetUserSettles(n, outcome))

SpecStore == StoreInit /\ [][StoreNext]_vars /\ StoreFairness

\* ---------------------------------------------------- what the claims use
\* the names of a sequence of tools
Names(ts) == [i \in 1..Len(ts) |-> ts[i].name]

\* a sequence without the repetitions of its elements, first occurrences kept
RECURSIVE FirstOccurrences(_)
FirstOccurrences(q) ==
    IF q = <<>> THEN <<>>
    ELSE LET front == FirstOccurrences(SubSeq(q, 1, Len(q) - 1))
             x == q[Len(q)]
         IN IF \E i \in 1..Len(front) : front[i] = x THEN front
            ELSE Append(front, x)

NoDuplicates(q) == \A i, j \in 1..Len(q) : q[i] = q[j] => i = j

\* every registerTool call so far, in order
AllRegistrations == options \o BuiltinTools \o registered

IsRegistered(name) ==
    \E i \in 1..Len(AllRegistrations) : AllRegistrations[i].name = name

RegisteredTwice(name) ==
    \E i, j \in 1..Len(AllRegistrations) :
        i < j /\ AllRegistrations[i].name = name /\ AllRegistrations[j].name = name

\* the arguments of the latest registerTool call for name
LastRegistration(name) ==
    LET at == CHOOSE i \in 1..Len(AllRegistrations) :
                /\ AllRegistrations[i].name = name
                /\ \A j \in (i + 1)..Len(AllRegistrations) :
                        AllRegistrations[j].name # name
    IN AllRegistrations[at]

\* text holds part
Contains(text, part) ==
    \E i \in 1..(Len(text) - Len(part) + 1) :
        SubSeq(text, i, i + Len(part) - 1) = part

\* value has the shape a schema property declares
TypeMatches(property, value) ==
    CASE property.type = "array" ->
            /\ value.t = "array"
            /\ \A i \in 1..Len(value.items) : value.items[i].t = property.items
      [] property.type = "string" -> value.t = "string"
      [] OTHER -> TRUE

\* the fields schema requires that args lacks
MissingFields(schema, args) ==
    {schema.required[i] : i \in 1..Len(schema.required)} \ DOMAIN args

\* args has every required field, and each declared field it has is well shaped
Conforms(schema, args) ==
    /\ MissingFields(schema, args) = {}
    /\ \A k \in DOMAIN args \cap DOMAIN schema.properties :
            TypeMatches(schema.properties[k], args[k])

\* the last request was a call_tool with params / a list_tools
LastIsCall ==
    /\ last.served
    /\ "method" \in DOMAIN last.message
    /\ last.message.method = "call_tool"
    /\ "params" \in DOMAIN last.message

LastIsList ==
    /\ last.served
    /\ "method" \in DOMAIN last.message
    /\ last.message.method = "list_tools"

CalledName == last.message.params.name

CalledArguments ==
    IF "arguments" \in DOMAIN last.message.params
    THEN last.message.params.arguments
    ELSE EmptyObject

IsErrorResponse(resp) == "error" \in DOMAIN resp

\* ------------------------------------------------------------------ claims
\* C1: the response to a message that carries an id carries exactly that id
\* (list_tools, call_tool succeeding or failing, unknown or missing method).
C1_ResponseCarriesRequestId ==
    (last.served /\ "id" \in DOMAIN last.message) =>
        /\ ~last.out.threw
        /\ last.out.resp.id = last.message.id

\* a call_tool with id "id-2" whose handler ran and returned
C1_Witness ==
    /\ LastIsCall
    /\ "id" \in DOMAIN last.message
    /\ last.message.id = "id-2"
    /\ last.out.calls # <<>>
    /\ "result" \in DOMAIN last.out.resp

\* C2: a call_tool naming a tool that is not registered is answered with an
\* ErrorResponse whose code is MethodNotFound, whatever the arguments.
C2_UnregisteredToolIsMethodNotFound ==
    (LastIsCall /\ ~IsRegistered(CalledName)) =>
        /\ ~last.out.threw
        /\ IsErrorResponse(last.out.resp)
        /\ last.out.resp.error.code = MethodNotFound

\* C3: a call_tool whose arguments omit a field the tool's input schema
\* requires is answered with an ErrorResponse with code InvalidParams
\* (-32602 in JSON-RPC) whose message names the missing field.
C3_MissingFieldIsInvalidParams ==
    (LastIsCall /\ IsRegistered(CalledName)) =>
        \A field \in MissingFields(LastRegistration(CalledName).inputSchema,
                                   CalledArguments) :
            /\ ~last.out.threw
            /\ IsErrorResponse(last.out.resp)
            /\ last.out.resp.error.code = -32602
            /\ Contains(last.out.resp.error.message, field)

\* C4: a tool handler is never invoked with arguments that violate the input
\* schema registered with it.
C4_HandlerOnlySeesValidArguments ==
    last.served =>
        \A i \in 1..Len(last.out.calls) :
            Conforms(LastRegistration(last.out.calls[i].name).inputSchema,
                     last.out.calls[i].args)

\* C5: when a registered handler throws or rejects, call_tool returns an
\* ErrorResponse with the request's id, the execution-failure code and the
\* handler's error message; nothing escapes handleRequest, and requests after
\* a failure are answered too.
C5_HandlerFailureIsAnswered ==
    last.served =>
        /\ ~last.out.threw
        /\ IsErrorResponse(last.out.resp) \/ "result" \in DOMAIN last.out.resp
        /\ (LastIsCall /\ IsRegistered(CalledName)) =>
            LET ran == Invoke(LastRegistration(CalledName).handler,
                              CalledArguments)
            IN ran.threw =>
                /\ IsErrorResponse(last.out.resp)
                /\ "id" \in DOMAIN last.message =>
                        last.out.resp.id = last.message.id
                /\ last.out.resp.error.code = ToolExecutionFailed
                /\ last.out.resp.error.message =
                        IF ran.error.isError THEN ran.error.message
                        ELSE ToString(ran.error.num)

\* a call_tool that succeeds after an earlier request's handler failed
C5_Witness ==
    /\ handlerFailed
    /\ LastIsCall
    /\ last.out.calls # <<>>
    /\ "result" \in DOMAIN last.out.resp

\* C6: after registerTool was called twice with one name, call_tool runs the
\* second handler and list_tools shows the second description and schema.
C6_SecondRegistrationWins ==
    last.served =>
        /\ (LastIsCall /\ RegisteredTwice(CalledName)) =>
                /\ Len(last.out.calls) = 1
                /\ last.out.calls[1].handler =
                        LastRegistration(CalledName).handler
        /\ IsListResult(last.out) =>
                \A i \in 1..Len(last.out.resp.result.tools) :
                    LET entry == last.out.resp.result.tools[i]
                    IN RegisteredTwice(entry.name) =>
                        /\ entry.description =
                                LastRegistration(entry.name).description
                        /\ entry.inputSchema =
                                LastRegistration(entry.name).inputSchema

\* C7: the tools accessor and the list_tools result hold at most one entry
\* per tool name.
C7_OneDescriptorPerName ==
    /\ NoDuplicates(Names(tools))
    /\ (last.served /\ IsListResult(last.out)) =>
            NoDuplicates(Names(last.out.resp.result.tools))

\* C8: list_tools never answers with an error and lists the registered names
\* in registration order: the constructor's options in their order, then sum
\* and listPresenters, then later registrations (a name registered again
\* keeps its first place).
C8_ListInRegistrationOrder ==
    LastIsList =>
        /\ IsListResult(last.out)
        /\ Names(last.out.resp.result.tools) =
                FirstOccurrences(Names(AllRegistrations))

\* list_tools on a server constructed with two tools of different names
C8_Witness ==
    /\ LastIsList
    /\ Len(options) = 2
    /\ options[1].name # options[2].name
    /\ Len(last.out.resp.result.tools) = 3

\* C9: a list_tools result equals the first one given since the last
\* registerTool, also with call_tool requests served in between.
C9_ListToolsIsIdempotent ==
    (LastIsList /\ listed.some) =>
        /\ IsListResult(last.out)
        /\ last.out.resp.result.tools = listed.tools

\* a second list_tools, a handler having failed since the first
C9_Witness ==
    /\ LastIsList
    /\ listed.some
    /\ ~listed.failedBefore
    /\ handlerFailed

\* C10: serving a request leaves _toolHandlers and _tools as they were.
C10_ServingLeavesRegistry ==
    [][last'.served => (toolHandlers' = toolHandlers /\ tools' = tools)]_vars

\* a failed call_tool served by a server with a tool registered after
\* construction
C10_Witness ==
    /\ last.served
    /\ HandlerThrew(last.out)
    /\ registered # <<>>

\* C11: start() connects an unconnected transport; start() on a connected
\* transport fails with an error and leaves it connected.
C11_StartConnectsOnce ==
    lastCall.op = "start" =>
        /\ isConnected
        /\ lastCall.outcome =
                IF lastCall.wasConnected THEN "rejected" ELSE "resolved"

\* a start() refused on a connected transport
C11_Witness ==
    /\ lastCall = Call("start", TRUE, "rejected")
    /\ isConnected
    /\ listeners = 1

\* C12: once close() has taken a started transport out of Connected, no
\* start/send/close call makes it Connected again.
C12_LifecycleIsMonotonic == closedOnce => ~isConnected

\* C13: over the life of a transport the onClose cleanup runs at most once;
\* a close() after the first returns without running it.
C13_CleanupRunsAtMostOnce ==
    /\ onCloseRuns <= 1
    /\ (lastCall.op = "close" /\ ~lastCall.wasConnected) =>
            lastCall.outcome = "resolved"

\* C14: send() never rejects: a handler that rejects and a transport that is
\* not connected are both reported through onerror.
C14_SendNeverRejects ==
    \A n \in 1..Len(sends) :
        /\ sends[n].status # "rejected"
        /\ (sends[n].status = "resolved" /\ handleMessage = "rejects") =>
                sends[n].onerror = 1
        /\ ~sends[n].wasConnected => sends[n].onerror = 1

\* C15: a send() on a transport that is not connected never calls the
\* message handler and never leads to an onmessage delivery.
C15_UnconnectedSendReachesNothing ==
    \A n \in 1..Len(sends) :
        ~sends[n].wasConnected =>
            /\ \A i \in 1..Len(started) : started[i] # n
            /\ sends[n].onmessage = 0
            /\ \A i \in 1..Len(delivered) : delivered[i].send # n

\* a send() made after close(), another send having been delivered
C15_Witness ==
    /\ closedOnce
    /\ delivered # <<>>
    /\ \E n \in 1..Len(sends) : ~sends[n].wasConnected

\* C16: for each send() onmessage runs at most once, and onmessage and
\* onerror never both run for one request.
C16_OneOutcomePerSend ==
    \A n \in 1..Len(sends) :
        /\ sends[n].onmessage <= 1
        /\ ~(sends[n].onmessage >= 1 /\ sends[n].onerror >= 1)

\* C17: every delivered response has the id of a request sent before on the
\* transport; a message without id or method never gets a response with an
\* invented id delivered.
C17_DeliveredIdsWereSent ==
    \A i \in 1..Len(delivered) :
        \E n \in 1..Len(sends) :
            /\ "id" \in DOMAIN sends[n].message
            /\ sends[n].message.id = delivered[i].resp.id

\* C18: handleMessage is called in the order of the send() calls; the
\* responses are delivered in the order the handlers finish, each with the
\* id of its own request.
C18_StartedInOrderCorrelatedById ==
    /\ \A i, j \in 1..Len(started) : i < j => started[i] < started[j]
    /\ \A n \in 1..Len(sends) :
            sends[n].wasConnected => \E i \in 1..Len(started) : started[i] = n
    /\ \A i \in 1..Len(delivered) :
            LET message == sends[delivered[i].send].message
            IN "id" \in DOMAIN message => delivered[i].resp.id = message.id

\* the second request's response delivered before the first's
C18_Witness ==
    /\ Len(delivered) = 2
    /\ delivered[1].send = 2
    /\ delivered[2].send = 1
    /\ delivered[1].resp.id = "id-2"
    /\ delivered[2].resp.id = "id-1"

\* C19: after close() no response is delivered through onmessage, those of
\* requests in flight at the close included.
C19_NoDeliveryAfterClose ==
    \A i \in 1..Len(delivered) : ~delivered[i].afterClose

\* the results of a batch call whose arguments parsed: the paths asked for
\* and the sub-operations that failed
BatchReturned ==
    /\ imageResult # NoResult
    /\ imageRequest.name \in BatchTools
    /\ ParseSucceeds(imageRequest.arguments)
AskedPaths == imageRequest.arguments.paths
FailedPaths == { i \in 1..Len(imageTasks) : imageTasks[i].stage = "rejected" }

\* an entry with an error and no payload for a failed path, with a payload
\* and no error for the others, in the order of the paths asked for
ExpectedEntries ==
    [i \in 1..Len(AskedPaths) |->
        IF i \in FailedPaths
        THEN [path |-> AskedPaths[i], error |-> imageTasks[i].reason.error]
        ELSE (PayloadKey(imageRequest.name) :>
                    imageTasks[i].value[PayloadKey(imageRequest.name)])
                @@ [path |-> AskedPaths[i]]]

\* C20: a batch image tool called with N paths of which K fail returns a
\* result that is not an error and lists exactly N entries: the K failed
\* ones with an error and no payload, the others with a payload and no error.
C20_BatchListsEveryPath ==
    BatchReturned =>
        /\ "isError" \notin DOMAIN imageResult
        /\ Len(imageTasks) = Len(AskedPaths)
        /\ Len(imageResult.content) = 1
        /\ imageResult.content[1].text = StringifyEntries(ExpectedEntries)

\* two entries for one path given twice, the first uploaded, the second not
C20_Witness ==
    /\ BatchReturned
    /\ imageRequest.name = "upload_multiple_images"
    /\ AskedPaths = << "dir/b.png", "dir/b.png" >>
    /\ FailedPaths = { 2 }

\* the error the try block of the call tool handler ended with, if any
CallEnded == imageRequest # NoRequest /\ imageResult # NoResult
UnknownToolCalled == imageRequest.name \notin BatchTools \cup SingleTools
InvalidArgumentsGiven ==
    /\ ~UnknownToolCalled
    /\ ~ArgumentsParse(imageRequest.name, imageRequest.arguments)
SingleToolFailed ==
    /\ imageRequest.name \in SingleTools
    /\ imageTasks # <<>>
    /\ imageTasks[1].outcome.threw
CallFailed == UnknownToolCalled \/ InvalidArgumentsGiven \/ SingleToolFailed
FailureMessage ==
    CASE UnknownToolCalled -> "Unknown tool: " \o imageRequest.name
      [] InvalidArgumentsGiven ->
            "Invalid arguments for " \o imageRequest.name \o ": Required"
      [] OTHER -> ErrorMessage(imageTasks[1].outcome.error)

\* C21: every call_tool request to the ImageServer ends with a result, not a
\* throw: after a failure (unknown tool, invalid arguments, file read, upload
\* or model error) the result is one text block with the error message and
\* isError true; after a success isError is not set.
C21_FailureIsAnErrorResult ==
    CallEnded =>
        /\ "content" \in DOMAIN imageResult
        /\ IF CallFailed
           THEN /\ "isError" \in DOMAIN imageResult
                /\ imageResult.isError = TRUE
                /\ Len(imageResult.content) = 1
                /\ imageResult.content[1].type = "text"
                /\ imageResult.content[1].text = "Error: " \o FailureMessage
           ELSE "isError" \notin DOMAIN imageResult

\* ocr_image ended by an error of the model
C21_Witness ==
    /\ CallEnded
    /\ imageRequest.name = "ocr_image"
    /\ SingleToolFailed
    /\ imageResult.content[1].text = "Error: Failed to perform OCR: rate limited"

\* the kind of server each recognised name stands for
KindOf(serverName) ==
    CASE serverName = "buildInFileSystem" -> "FileSystemServer"
      [] serverName = "Artifacts" -> "ArtifactsServer"
      [] serverName = "bochaSearch" -> "BochaSearchServer"
      [] OTHER -> "ImageServer"

C23_NoHalfInitialisedImageServer ==
    \A i \in 1..Len(factoryCalls) :
        LET out == factoryCalls[i].out
        IN (~out.threw /\ out.value.kind = "ImageServer"
                /\ \E k \in 1..Len(out.value.listed) :
                        out.value.listed[k] \in { "upload_image",
                                                  "upload_multiple_images" })
            => /\ out.value.r2Client
               /\ Truthy(out.value.publicUrlBase)

\* C24: a CopilotService tracks at most one cancellation token: a
\* completeStream that starts aborts the token of an earlier outstanding
\* stream before it installs its own, so no two outstanding streams of one
\* service are both un-aborted.
C24_OneLiveStream ==
    /\ \A m, n \in 1..Len(streams) :
            (m # n /\ Outstanding(streams[m]) /\ Outstanding(streams[n]))
                => Aborted(streams[m]) \/ Aborted(streams[n])
    /\ \A n \in 1..Len(streams) :
            (Outstanding(streams[n]) /\ ~Aborted(streams[n]))
                => currentAbortController = n

\* two streams outstanding, the first aborted by the start of the second
C24_Witness ==
    /\ Len(streams) = 2
    /\ Outstanding(streams[1])
    /\ Outstanding(streams[2])
    /\ streams[1].aborted = "superseded"
    /\ ~Aborted(streams[2])

\* C25: once cancelCurrentStream() has been called during a completeStream
\* call, that call yields no further content, the content of lines of the
\* chunk it was processing included.
C25_NoContentAfterCancel ==
    \A n \in 1..Len(streams) : ~streams[n].late

\* C26: a call that ends after a later call started neither aborts nor
\* clears the later call's token, and a cancelCurrentStream() after that
\* still aborts the later call.
C26_LaterStreamKeepsItsToken ==
    [][\A n \in 1..Len(streams) :
            (Outstanding(streams[n]) /\ ~Aborted(streams[n])) =>
                /\ (\E m \in 1..Len(streams) :
                        m # n /\ Outstanding(streams[m])
                              /\ ~Outstanding(streams'[m]))
                    => /\ ~Aborted(streams'[n])
                       /\ currentAbortController' = n
                /\ (currentAbortController' = 0 /\ Outstanding(streams'[n]))
                    => streams'[n].aborted = "client"]_vars

\* the first call ended after the second started, then the second was
\* cancelled by cancelCurrentStream()
C26_Witness ==
    /\ Len(streams) = 2
    /\ streams[1].endedAfter = 2
    /\ streams[2].aborted = "client"
    /\ streams[2].endedAtAbort = 1
    /\ Outstanding(streams[2])

\* no token request so far gave a token or failed for good
AllPending ==
    \A i \in 1..Len(polled) :
        IF polled[i].threw THEN IsPending(polled[i].error)
        ELSE ~HasToken(polled[i].value)

\* how a finished getCopilotToken call relates to its token requests
PollingEndsRight ==
    /\ Len(polled) <= MAX_POLLING_ATTEMPTS
    /\ polling.pc = "done" =>
        \/ /\ ~polling.threw
           /\ polled # <<>>
           /\ ~polled[Len(polled)].threw
           /\ HasToken(polled[Len(polled)].value)
           /\ polling.data = polled[Len(polled)].value.data
        \/ /\ polling.threw
           /\ polling.message = "Failed to poll for GitHub access token."
           /\ polled # <<>>
           /\ polled[Len(polled)].threw
           /\ ~IsPending(polled[Len(polled)].error)
        \/ /\ polling.threw
           /\ polling.message =
                "Max polling attempts reached for GitHub access token."
           /\ Len(polled) = MAX_POLLING_ATTEMPTS
           /\ AllPending

\* C27: getCopilotToken ends after at most MAX_POLLING_ATTEMPTS token
\* requests: it returns a token, or throws on an error that is not pending,
\* or throws 'Max polling attempts reached' when every attempt was pending or
\* gave no token.
C27_PollingIsBounded ==
    /\ []PollingEndsRight
    /\ <>(polling.pc = "done")

\* ten pending attempts, then the throw
C27_Witness ==
    /\ polling.pc = "done"
    /\ polling.threw
    /\ Len(polled) = MAX_POLLING_ATTEMPTS
    /\ attempts = MAX_POLLING_ATTEMPTS
    /\ AllPending

\* the built-in sum handler is the one registered last under the name sum
BuiltinSumInPlace ==
    /\ IsRegistered("sum")
    /\ LastRegistration("sum").handler = "sum"

\* the last request called sum with a numbers array
SumCalledWithArray ==
    /\ LastIsCall
    /\ CalledName = "sum"
    /\ BuiltinSumInPlace
    /\ "numbers" \in DOMAIN CalledArguments
    /\ IsArray(CalledArguments.numbers)

\* the numbers array of the last request
CalledNumbers == CalledArguments.numbers.items

\* the sum of the numbers from index i on
RECURSIVE TotalFrom(_, _)
TotalFrom(numbers, i) ==
    IF i > Len(numbers) THEN 0 ELSE numbers[i].n + TotalFrom(numbers, i + 1)

\* C28: for an array of numbers, call_tool on the built-in sum tool answers
\* with a result, no error and no isError mark, whose one text block encodes
\* the arithmetic sum of the array (15 for [1,2,3,4,5]).
C28_SumOfNumbers ==
    (/\ SumCalledWithArray
     /\ \A i \in 1..Len(CalledNumbers) : CalledNumbers[i].t = "number") =>
        /\ ~last.out.threw
        /\ ~IsErrorResponse(last.out.resp)
        /\ "result" \in DOMAIN last.out.resp
        /\ ~("isError" \in DOMAIN last.out.resp)
        /\ ~("isError" \in DOMAIN last.out.resp.result)
        /\ last.out.resp.result.content =
            << [type |-> "text",
                text |-> "{\"sum\":"
                         \o ToString(TotalFrom(CalledNumbers, 1)) \o "}"] >>

\* sum was called with [1,2,3,4,5] and the text says 15
C28_Witness ==
    /\ SumCalledWithArray
    /\ CalledNumbers = << Num(1), Num(2), Num(3), Num(4), Num(5) >>
    /\ last.out.resp.result.content[1].text = "{\"sum\":15}"

\* C29: call_tool on sum with a numbers array that holds a non-numeric value
\* yields an error response that is marked isError true and whose message says
\* the array contains a non-numeric value.
C29_NonNumericIsMarkedIsError ==
    (/\ SumCalledWithArray
     /\ \E i \in 1..Len(CalledNumbers) : ToNumber(CalledNumbers[i]).nan) =>
        /\ ~last.out.threw
        /\ IsErrorResponse(last.out.resp)
        /\ Contains(last.out.resp.error.message, "non-numeric value")
        /\ \/ "isError" \in DOMAIN last.out.resp
              /\ last.out.resp.isError = TRUE
           \/ "isError" \in DOMAIN last.out.resp.error
              /\ last.out.resp.error.isError = TRUE

\* C30: a request whose method is neither list_tools nor call_tool is
\* answered with an ErrorResponse whose code is MethodNotFound and whose id is
\* the request's, and no tool handler is invoked.
C30_UnknownMethodIsMethodNotFound ==
    (/\ last.served
     /\ "method" \in DOMAIN last.message
     /\ last.message.method \notin {"list_tools", "call_tool"}) =>
        /\ ~last.out.threw
        /\ IsErrorResponse(last.out.resp)
        /\ last.out.resp.error.code = MethodNotFound
        /\ "id" \in DOMAIN last.message => last.out.resp.id = last.message.id
        /\ last.out.calls = <<>>

\* tools/list was asked with id-1 and refused
C30_Witness ==
    /\ last.served
    /\ "method" \in DOMAIN last.message
    /\ last.message.method = "tools/list"
    /\ "id" \in DOMAIN last.message
    /\ last.message.id = "id-1"
    /\ IsErrorResponse(last.out.resp)

\* the sends whose handleMessage call rejected
FailedSends == { n \in 1..Len(sends) : sends[n].handler = "rejected" }

\* this step is the n-th send resuming after handleMessage settled
SettlesIn(n) ==
    /\ n \in 1..Len(sends)
    /\ sends[n].status = "pending"
    /\ sends'[n].status = "resolved"

\* C31: a send whose handler fails is reported through onerror and leaves the
\* transport Connected with its listener; afterwards the requests still
\* pending get their responses delivered, and later sends are accepted.
C31_FailureLeavesTransportUsable ==
    [][/\ \A n \in 1..MaxSends :
            (SettlesIn(n) /\ sends'[n].handler = "rejected") =>
                /\ sends'[n].onerror = 1
                /\ sends'[n].onmessage = 0
                /\ isConnected' = isConnected
                /\ listeners' = listeners
       /\ \A n \in 1..MaxSends :
            (/\ SettlesIn(n)
             /\ FailedSends # {}
             /\ isConnected
             /\ sends'[n].handler = "answered") =>
                /\ sends'[n].onmessage = 1
                /\ Len(delivered') = Len(delivered) + 1
                /\ delivered'[Len(delivered')].send = n
                /\ delivered'[Len(delivered')].resp =
                        HandleRequest(sends[n].message).resp
       /\ (FailedSends # {} /\ isConnected /\ Len(sends') = Len(sends) + 1) =>
                /\ sends'[Len(sends')].status = "pending"
                /\ started' = Append(started, Len(sends'))
      ]_vars

\* the first send failed while the second was pending; the second's response
\* was delivered afterwards, on a transport never closed
C31_Witness ==
    /\ Len(sends) = 2
    /\ sends[1].handler = "rejected"
    /\ sends[1].onerror = 1
    /\ sends[1].pendingThen = {2}
    /\ sends[2].handler = "answered"
    /\ sends[2].onmessage = 1
    /\ isConnected
    /\ ~closedOnce

\* C34: a DirectTransport has exactly one 'response' listener when it is
\* Connected and none otherwise, and no response reaches onmessage more than
\* once, whatever start, send and close calls came before.
C34_OneListenerWhileConnected ==
    /\ listeners = IF isConnected THEN 1 ELSE 0
    /\ \A n \in 1..Len(sends) : sends[n].onmessage <= 1
    /\ \A i, j \in 1..Len(delivered) :
            delivered[i].send = delivered[j].send => i = j

\* a response delivered once on a transport that was closed and started again
C34_Witness ==
    /\ closedOnce
    /\ isConnected
    /\ listeners = 1
    /\ \E i \in 1..Len(delivered) : delivered[i].afterClose

\* C35: every send() accepted by a Connected transport whose handler has
\* completed got exactly one onmessage or onerror invocation, whatever sends
\* and close() calls were interleaved.
C35_OneCallbackPerAcceptedSend ==
    \A n \in 1..Len(sends) :
        (sends[n].wasConnected /\ sends[n].status = "resolved") =>
            sends[n].onmessage + sends[n].onerror = 1

\* the tool names asked about: the built-in ones, a host tool, an unknown one
AskedNames == {"sum", "listPresenters", "t1", "nope"}

\* name is in the list_tools result of the server as it stands
IsListed(name) ==
    LET out == HandleRequest([jsonrpc |-> "2.0", id |-> "id-1",
                              method |-> "list_tools"])
    IN \E i \in 1..Len(out.resp.result.tools) :
            out.resp.result.tools[i].name = name

\* call_tool with name reaches a tool handler on the server as it stands
ReachesHandler(name) ==
    LET out == HandleRequest([jsonrpc |-> "2.0", id |-> "id-2",
                              method |-> "call_tool",
                              params |-> [name |-> name,
                                          arguments |-> EmptyObject]])
    IN /\ out.calls # <<>>
       /\ out.calls[1].name = name
       /\ IsErrorResponse(out.resp) =>
                out.resp.error.message # "tool does not exist: " \o name

\* C33: after any sequence of registerTool calls a tool name is in the
\* list_tools result if and only if call_tool with that name reaches a handler.
C33_ListedIffCallable ==
    \A name \in AskedNames : IsListed(name) <=> ReachesHandler(name)

\* after a registerTool call: t1 is listed and callable, nope is neither
C33_Witness ==
    /\ registered # <<>>
    /\ IsListed("t1")
    /\ ReachesHandler("t1")
    /\ ~IsListed("nope")
    /\ ~ReachesHandler("nope")

\* the last request is a batch call whose arguments parsed
BatchCalled ==
    /\ imageRequest # NoRequest
    /\ imageRequest.name \in BatchTools
    /\ ParseSucceeds(imageRequest.arguments)

\* C36: in the batch image tools the sub-operation of every path is started by
\* the call itself, the i-th for the i-th path, and the i-th entry of the
\* result has the i-th input path as its path, in whatever order the reads
\* and uploads complete or fail.
C36_EntriesFollowInputOrder ==
    BatchCalled =>
        /\ Len(imageTasks) = Len(AskedPaths)
        /\ \A i \in 1..Len(AskedPaths) : imageTasks[i].path = AskedPaths[i]
        /\ imageResult # NoResult =>
            LET entries == FormattedResults(imageRequest.name, imageTasks)
            IN /\ imageResult.content[1].text = StringifyEntries(entries)
               /\ Len(entries) = Len(AskedPaths)
               /\ \A i \in 1..Len(AskedPaths) : entries[i].path = AskedPaths[i]

\* an upload call returned whose second path, a failure, completed before
\* its first, a success
C36_Witness ==
    /\ BatchCalled
    /\ imageResult # NoResult
    /\ imageRequest.name = "upload_multiple_images"
    /\ AskedPaths = << "a.png", "missing.png" >>
    /\ imageTasks[2].overtook
    /\ imageTasks[2].stage = "rejected"
    /\ imageTasks[1].stage = "fulfilled"

\* the calls that have a handler on some channel, and on every channel
ListeningSomewhere == UNION { ipcListeners[c] : c \in Channels }
ListeningEverywhere ==
    { k \in 1..Len(preloadStreams) : \A c \in Channels : k \in ipcListeners[c] }

\* the calls whose stream has neither ended, nor failed, nor been cancelled
StillRunning ==
    { k \in 1..Len(preloadStreams) :
        preloadStreams[k].open /\ ~preloadStreams[k].cancelled }

\* C32: the listeners a completeStream call registers are removed when its
\* stream ends, errors or is cancelled; no event of one stream removes or
\* triggers the listeners of another; so the listeners that remain are
\* exactly those of the streams still running.
C32_OnlyRunningStreamsListen ==
    /\ ListeningSomewhere = StillRunning
    /\ ListeningEverywhere = StillRunning
    /\ \A k \in 1..Len(preloadStreams) : preloadStreams[k].foreign = 0


\* C37: at most one login polling timer is active at any time and
\* pollingIntervalId refers to it, also when login() is called again or
\* twice concurrently, so that cancelLoginPolling() and logout() stop all
\* polling.
C37_OnePollingTimer ==
    /\ Cardinality(timers) <= 1
    /\ timers # {} => pollingIntervalId \in timers

\* C38: the promise of every login() call settles eventually, also after
\* cancelLoginPolling() or logout() were called while it was polling.
C38_LoginPromiseSettles ==
    \A n \in 1..MaxLogins :
        (n <= Len(logins)) ~> (n <= Len(logins) /\ logins[n].promise # "pending")

\* C39: once logout() or cancelLoginPolling() has completed with the login
\* state cleared, isAuthenticated, the tokens and the user stay cleared
\* until login() is called again, whatever a polling callback of an earlier
\* login still has in flight.
C39_ClearedStaysCleared == cleared => LoginStateClear

\* the part of C39 about a failing backend logout: the finally block of
\* logout() leaves the login state clear
LogoutClearsWhateverTheBackend ==
    [][\A k \in 1..MaxLogouts, outcome \in VoidOutcomes :
          LogoutSettles(k, outcome) => LoginStateClear']_vars

====
